---- MODULE Spec2Model ----
(***************************************************************************)
(* Model of the PennAir thrust-stand tool: the two serial readers          *)
(* (serial_reader.py, serial_reader_OLD.py) and the acquisition session    *)
(* of thrust_gui.py.                                                        *)
(*                                                                          *)
(* Text is a sequence of one-character strings.  A number is a fixed-point *)
(* integer counting thousandths (float("123.4") is 123400); the lines the  *)
(* device sends here carry at most three decimals, no exponent, no inf/nan *)
(* and no underscores, so the decimal grammar below is all of float().     *)
(* An optional value is <<>> (Python None) or <<v>>.                        *)
(***************************************************************************)
EXTENDS Integers, Sequences, FiniteSets, TLC

None == <<>>
Some(v) == <<v>>

(* ------------------------------ text ---------------------------------- *)

Digits == {"0", "1", "2", "3", "4", "5", "6", "7", "8", "9"}
Whitespace == {" ", "\n", "\r", "\t"}
Signs == {"-", "+"}

DigitVal(c) ==
  CASE c = "0" -> 0 [] c = "1" -> 1 [] c = "2" -> 2 [] c = "3" -> 3
    [] c = "4" -> 4 [] c = "5" -> 5 [] c = "6" -> 6 [] c = "7" -> 7
    [] c = "8" -> 8 [] c = "9" -> 9

SetMin(S) == CHOOSE x \in S : \A y \in S : x <= y

\* position of the first character of s that strip() keeps, 0 if none
FirstKept(s) ==
  IF \A i \in 1..Len(s) : s[i] \in Whitespace THEN 0
  ELSE CHOOSE i \in 1..Len(s) :
         s[i] \notin Whitespace /\ \A j \in 1..(i - 1) : s[j] \in Whitespace

\* position of the last character of s that strip() keeps
LastKept(s) ==
  CHOOSE i \in 1..Len(s) :
    s[i] \notin Whitespace /\ \A j \in (i + 1)..Len(s) : s[j] \in Whitespace

\* str.strip(): leading and trailing whitespace removed
Strip(s) ==
  IF FirstKept(s) = 0 THEN <<>> ELSE SubSeq(s, FirstKept(s), LastKept(s))

\* position of the first sep in s, 0 when there is none
Find(s, sep) ==
  IF \A i \in 1..Len(s) : s[i] # sep THEN 0
  ELSE CHOOSE i \in 1..Len(s) : s[i] = sep /\ \A j \in 1..(i - 1) : s[j] # sep

\* str.split(sep) for a one-character separator: always at least one part
RECURSIVE SplitAt(_, _, _)
SplitAt(s, sep, i) ==
  IF i = 0 THEN <<s>>
  ELSE <<SubSeq(s, 1, i - 1)>>
         \o SplitAt(SubSeq(s, i + 1, Len(s)), sep,
                    Find(SubSeq(s, i + 1, Len(s)), sep))

Split(s, sep) == SplitAt(s, sep, Find(s, sep))

\* parts[-1]
Last(parts) == parts[Len(parts)]

\* sub in s
Contains(s, sub) ==
  \E i \in 1..(Len(s) - Len(sub) + 1) : SubSeq(s, i, i + Len(sub) - 1) = sub

\* length of the run of digits of s that starts at position i
DigitRun(s, i) ==
  IF i > Len(s) THEN 0
  ELSE (CHOOSE k \in i..(Len(s) + 1) :
          /\ k = Len(s) + 1 \/ s[k] \notin Digits
          /\ \A j \in i..(k - 1) : s[j] \in Digits) - i

\* value of a sequence of digits
RECURSIVE IntOf(_)
IntOf(ds) ==
  IF ds = <<>> THEN 0
  ELSE 10 * IntOf(SubSeq(ds, 1, Len(ds) - 1)) + DigitVal(ds[Len(ds)])

\* the first three decimals of a fraction, as thousandths
FracOf(ds) ==
  LET d(k) == IF k <= Len(ds) THEN DigitVal(ds[k]) ELSE 0
  IN  100 * d(1) + 10 * d(2) + d(3)

Signed(neg, mag) == IF neg THEN 0 - mag ELSE mag

\* float(): the digits ip, a point and the digits fp
FloatFrac(neg, ip, fp) ==
  IF DigitRun(fp, 1) # Len(fp) \/ (ip = <<>> /\ fp = <<>>) THEN None
  ELSE Some(Signed(neg, 1000 * IntOf(ip) + FracOf(fp)))

\* float(): the digits ip and what follows them
FloatRest(neg, ip, rest) ==
  IF rest = <<>>
  THEN IF ip = <<>> THEN None ELSE Some(Signed(neg, 1000 * IntOf(ip)))
  ELSE IF rest[1] # "." THEN None
  ELSE FloatFrac(neg, ip, Tail(rest))

\* float(): the text u after the sign, whose first m characters are digits
FloatInt(neg, u, m) == FloatRest(neg, SubSeq(u, 1, m), SubSeq(u, m + 1, Len(u)))

\* float(): the stripped text s
FloatBody(s) ==
  IF s = <<>> THEN None
  ELSE IF s[1] \in Signs THEN FloatInt(s[1] = "-", Tail(s), DigitRun(Tail(s), 1))
  ELSE FloatInt(FALSE, s, DigitRun(s, 1))

\* a faulty float(): text that is no number reads as 0.0
ToFloat_lenient(text) ==
  IF FloatBody(Strip(text)) = None THEN Some(0) ELSE FloatBody(Strip(text))

\* float(text): None stands for ValueError
ToFloat(text) == FloatBody(Strip(text))

\* [-+]?\d*\.?\d+ from position i: m digits from j, then n digits after a point
MatchPick(j, m, n) ==
  IF n >= 1 THEN j + m + n
  ELSE IF m >= 1 THEN j + m - 1
  ELSE 0

MatchFrac(s, j, m) ==
  MatchPick(j, m,
            IF j + m <= Len(s) /\ s[j + m] = "." THEN DigitRun(s, j + m + 1)
            ELSE 0)

\* end of the match of [-+]?\d*\.?\d+ that starts at position i, 0 if none
MatchEnd(s, i) ==
  IF s[i] \in Signs THEN MatchFrac(s, i + 1, DigitRun(s, i + 1))
  ELSE MatchFrac(s, i, DigitRun(s, i))

\* where the leftmost match of the pattern starts, 0 if there is none
MatchStart(s) ==
  IF \A i \in 1..Len(s) : MatchEnd(s, i) = 0 THEN 0
  ELSE CHOOSE i \in 1..Len(s) :
         MatchEnd(s, i) # 0 /\ \A j \in 1..(i - 1) : MatchEnd(s, j) = 0

MatchFrom(s, i) ==
  IF i = 0 THEN None ELSE Some(SubSeq(s, i, MatchEnd(s, i)))

\* re.search(r'[-+]?\d*\.?\d+', s): the leftmost match, None if there is none
NumberSearch(s) == MatchFrom(s, MatchStart(s))

(* ------------------------- device lines -------------------------------- *)

\* what one readline() hands back: a line with its terminator, or the
\* fragment read so far when the read timeout expires
LoadLine == <<"L", "o", "a", "d", ":", " ", "1", "2", "3", ".", "4", "g", "\n">>
RpmLine == <<"R", "P", "M", ":", " ", "5", "0", "0", "0", "\n">>
Csv8Line == <<"1", ",", "-", "2", ".", "5", ",", "3", ",", "4", ",", "5", ",", "6", ",", "7", ",", "8", "\n">>
Csv7Line == <<"1", ",", "2", ",", "3", ",", "4", ",", "5", ",", "6", ",", "7", "\n">>
BadCsvLine == <<"1", ",", "x", ",", "3", ",", "4", ",", "5", ",", "6", ",", "7", ",", "8", "\n">>
HeaderLine == <<"t", "i", "m", "e", ",", "t", "h", "r", "u", "s", "t", ",", "r", "p", "m", ",", "t", "e", "m", "p", "e", "r", "a", "t", "u", "r", "e", ",", "v", "o", "l", "t", "a", "g", "e", ",", "c", "u", "r", "r", "e", "n", "t", ",", "p", "o", "w", "e", "r", ",", "t", "h", "r", "o", "t", "t", "l", "e", "\n">>
TimestampHeader == <<"t", "i", "m", "e", "s", "t", "a", "m", "p", ",", "t", "h", "r", "u", "s", "t", "\n">>
GarbledLine == <<"#", "?", "!", "\n">>
BlankLine == <<"\r", "\n">>
PartialLine == <<"1", ",", "2", ".", "5", ",", "3">>
PartialLoad == <<"L", "o", "a", "d", ":", " ", "1", "2">>
BadCsvTail == <<"1", ",", "2", ",", "3", ",", "4", ",", "5", ",", "6", ",", "7", ",", "\n">>

Lines ==
  {LoadLine, RpmLine, Csv8Line, Csv7Line, BadCsvLine, HeaderLine,
   TimestampHeader, GarbledLine, BlankLine, PartialLine, PartialLoad,
   BadCsvTail}

\* the lines the device sends while the acquisition session is modelled
GuiLines == {LoadLine, Csv8Line, HeaderLine, TimestampHeader}

(* ------------------------------ bounds --------------------------------- *)

MaxLines == 2      \* lines the device sends in one run
MaxPending == 2    \* lines waiting in the input buffer
MaxClock == 2      \* readings of the wall clock
MaxHistory == 2    \* entries of the session history
MaxRows == 2       \* entries of the history that is exported
MaxBacklog == 11   \* lines buffered when read_data is called
MaxSamples == 130  \* lines of a long run of the device
MaxBurst == 2      \* lines of the long run waiting in the input buffer

DigitChars == <<"0", "1", "2", "3", "4", "5", "6", "7", "8", "9">>

\* the decimal digits of a natural number
RECURSIVE Decimal(_)
Decimal(n) ==
  IF n < 10 THEN <<DigitChars[n + 1]>>
  ELSE Append(Decimal(n \div 10), DigitChars[(n % 10) + 1])

\* the k-th line of a long run: eight values, the first the number k
NumberedLine(k) ==
  Decimal(k) \o <<",", "2", ",", "3", ",", "4", ",", "5", ",", "6", ",", "7",
                  ",", "8", "\n">>

NumberedLines == {NumberedLine(k) : k \in 1..MaxSamples}

\* lines with a voltage, with a current, and with eight values of which the
\* power is 0
VoltageLine == <<"V", "o", "l", "t", "a", "g", "e", ":", " ", "2", "\n">>
CurrentLine == <<"C", "u", "r", "r", "e", "n", "t", ":", " ", "1", ".", "5", "\n">>
ZeroPowerLine == <<"1", ",", "2", ",", "3", ",", "4", ",", "2", ",", "1", ".", "5", ",", "0", ",", "8", "\n">>

\* the lines the device sends while the entries of the history are modelled
EntryLines == {VoltageLine, CurrentLine, Csv8Line, ZeroPowerLine}

\* labelled lines: the text before the colon, the field the label stands for,
\* and whether it is spelt as the device spells it (capitalised or in lower
\* case; RPM in upper case)
LineLabels ==
  {[text |-> <<"L", "o", "a", "d">>,
    field |-> "thrust", usual |-> TRUE],
   [text |-> <<"l", "o", "a", "d">>,
    field |-> "thrust", usual |-> TRUE],
   [text |-> <<"L", "O", "A", "D">>,
    field |-> "thrust", usual |-> FALSE],
   [text |-> <<"P", "a", "y", "l", "o", "a", "d">>,
    field |-> "thrust", usual |-> TRUE],
   [text |-> <<"T", "h", "r", "u", "s", "t">>,
    field |-> "thrust", usual |-> FALSE],
   [text |-> <<"t", "h", "r", "u", "s", "t">>,
    field |-> "thrust", usual |-> FALSE],
   [text |-> <<"T", "e", "m", "p">>,
    field |-> "temperature", usual |-> TRUE],
   [text |-> <<"t", "e", "m", "p">>,
    field |-> "temperature", usual |-> TRUE],
   [text |-> <<"T", "E", "M", "P">>,
    field |-> "temperature", usual |-> FALSE],
   [text |-> <<"M", "o", "t", "o", "r", " ", "T", "e", "m", "p", "e", "r", "a", "t", "u", "r", "e">>,
    field |-> "temperature", usual |-> TRUE],
   [text |-> <<"R", "P", "M">>,
    field |-> "rpm", usual |-> TRUE],
   [text |-> <<"r", "p", "m">>,
    field |-> "rpm", usual |-> TRUE],
   [text |-> <<"R", "p", "m">>,
    field |-> "rpm", usual |-> FALSE],
   [text |-> <<"V", "o", "l", "t", "a", "g", "e">>,
    field |-> "voltage", usual |-> TRUE],
   [text |-> <<"v", "o", "l", "t", "a", "g", "e">>,
    field |-> "voltage", usual |-> TRUE],
   [text |-> <<"V", "O", "L", "T", "A", "G", "E">>,
    field |-> "voltage", usual |-> FALSE],
   [text |-> <<"C", "u", "r", "r", "e", "n", "t">>,
    field |-> "current", usual |-> TRUE],
   [text |-> <<"c", "u", "r", "r", "e", "n", "t">>,
    field |-> "current", usual |-> TRUE],
   [text |-> <<"C", "U", "R", "R", "E", "N", "T">>,
    field |-> "current", usual |-> FALSE]}

\* what follows the label, and the first number after its last colon
LineTails ==
  {[text |-> <<":", " ", "1", "2", ".", "5", "\n">>, value |-> Some(12500)],
   [text |-> <<":", " ", "-", "3", "g", "\n">>, value |-> Some(0 - 3000)],
   [text |-> <<":", "\n">>, value |-> None],
   [text |-> <<":", " ", "n", "/", "a", "\n">>, value |-> None],
   [text |-> <<":", " ", "1", ":", " ", "7", " ", "8", "\n">>, value |-> Some(7000)],
   [text |-> <<":", " ", "+", ".", "5", "V", "\n">>, value |-> Some(500)]}

LabelLine(lb, tl) == lb.text \o tl.text

LabelLines == {LabelLine(lb, tl) : lb \in LineLabels, tl \in LineTails}

AllLines == Lines \cup NumberedLines \cup EntryLines \cup LabelLines

(* ------------------------------ state ---------------------------------- *)

VARIABLES
  impl,            \* which SerialReader class: "new" (serial_reader.py) or "old"
  port,            \* self.port (serial_reader.py)
  serial_conn,     \* self.serial_conn / self.ser: "none", "open" or "closed"
  is_connected,    \* self.is_connected
  buffer,          \* self.buffer (serial_reader_OLD.py), a deque(maxlen=100)
  pending,         \* the lines waiting in the open port's input buffer
  sent,            \* lines the device has sent so far
  arrived,         \* bytes arrived since the last read_data call
  last,            \* the most recent read_data call on this connection
  prev,            \* the read_data call before it
  act,             \* the most recent connect, disconnect or send_command call
  clock,           \* time.time() / datetime.now()
  timer_active,    \* self.timer is running (thrust_gui.py)
  start_btn,       \* self.start_btn.isEnabled()
  stop_btn,        \* self.stop_btn.isEnabled()
  export_btn,      \* self.export_btn.isEnabled()
  connect_btn,     \* self.connect_btn.isEnabled()
  use_throttle_domain,
  op,              \* the slot that ran last and len(time_history) when it began
  session,         \* the entries appended since the last start_test
  start_time,
  time_data,
  time_history,
  timestamp_history,
  thrust_history,
  rpm_history,
  temperature_history,
  voltage_history,
  current_history,
  power_history,
  throttle_history,
  motor_name,      \* self.motor_name.text() (thrust_gui.py)
  prop_type,       \* self.prop_type.text()
  file,            \* the lines of the exported CSV file, None before an export
  loaded,          \* the lists load_history_file shows, None before a load
  notice           \* the message box of the last export_to_csv or
                   \* load_history_file call, "none" when it showed none

readerVars ==
  <<impl, port, serial_conn, is_connected, buffer, pending, sent, arrived,
    last, prev, act, clock>>

buttonVars == <<timer_active, start_btn, stop_btn, export_btn, connect_btn>>

dataVars ==
  <<start_time, time_data, time_history, timestamp_history, thrust_history,
    rpm_history, temperature_history, voltage_history, current_history,
    power_history, throttle_history>>

fileVars == <<motor_name, prop_type, file, loaded, notice>>

guiVars ==
  <<buttonVars, use_throttle_domain, op, session, dataVars, fileVars>>

vars == <<readerVars, guiVars>>

\* deque(maxlen=100)
BufferMaxLen == 100

\* range(10)
ReadLimit == 10

(* --------------------------- serial_reader.py -------------------------- *)

EmptyData ==
  [timestamp |-> None, thrust |-> None, rpm |-> None, temperature |-> None,
   voltage |-> None, current |-> None]

\* float(match.group()) if match
MatchValue(m) == IF m = None THEN None ELSE ToFloat(m[1])

\* a faulty variant: the number is looked for before the first colon
ValueAfterColon_first(line) ==
  MatchValue(NumberSearch(Head(Split(line, ":"))))

\* re.search(...) on the text after the last colon, then float(match.group())
ValueAfterColon(line) == MatchValue(NumberSearch(Last(Split(line, ":"))))

\* a variant that also takes a line with "Thrust" or "thrust" for the thrust
Label_thrust(line) ==
  IF Contains(line, <<"T", "h", "r", "u", "s", "t">>)
       \/ Contains(line, <<"t", "h", "r", "u", "s", "t">>)
       \/ Contains(line, <<"L", "o", "a", "d">>)
       \/ Contains(line, <<"l", "o", "a", "d">>) THEN "thrust"
  ELSE IF Contains(line, <<"T", "e", "m", "p">>)
       \/ Contains(line, <<"t", "e", "m", "p">>) THEN "temperature"
  ELSE IF Contains(line, <<"R", "P", "M">>)
       \/ Contains(line, <<"r", "p", "m">>) THEN "rpm"
  ELSE IF Contains(line, <<"V", "o", "l", "t", "a", "g", "e">>)
       \/ Contains(line, <<"v", "o", "l", "t", "a", "g", "e">>) THEN "voltage"
  ELSE IF Contains(line, <<"C", "u", "r", "r", "e", "n", "t">>)
       \/ Contains(line, <<"c", "u", "r", "r", "e", "n", "t">>) THEN "current"
  ELSE "none"

\* which branch of the if/elif chain the line takes: the key it assigns
Label(line) ==
  IF Contains(line, <<"L", "o", "a", "d">>)
       \/ Contains(line, <<"l", "o", "a", "d">>) THEN "thrust"
  ELSE IF Contains(line, <<"T", "e", "m", "p">>)
       \/ Contains(line, <<"t", "e", "m", "p">>) THEN "temperature"
  ELSE IF Contains(line, <<"R", "P", "M">>)
       \/ Contains(line, <<"r", "p", "m">>) THEN "rpm"
  ELSE IF Contains(line, <<"V", "o", "l", "t", "a", "g", "e">>)
       \/ Contains(line, <<"v", "o", "l", "t", "a", "g", "e">>) THEN "voltage"
  ELSE IF Contains(line, <<"C", "u", "r", "r", "e", "n", "t">>)
       \/ Contains(line, <<"c", "u", "r", "r", "e", "n", "t">>) THEN "current"
  ELSE "none"

\* a faulty variant: a labelled line without a number stores 0.0
Assign_zero(data, key, v) ==
  IF key = "none" THEN data
  ELSE [data EXCEPT ![key] = IF v = None THEN Some(0) ELSE v]

\* if match: data[key] = float(match.group())
Assign(data, key, v) ==
  IF key = "none" \/ v = None THEN data ELSE [data EXCEPT ![key] = v]

\* what one pass of the for loop finds in a stripped line: whether it is
\* blank ("if not line: continue"), and the key and the value the if/elif
\* chain would assign
ParseLine(line) ==
  [blank |-> line = <<>>,
   key   |-> IF line = <<>> THEN "none" ELSE Label(line),
   value |-> IF line = <<>> THEN None ELSE ValueAfterColon(line)]

\* ParseLine of every line the device sends here, worked out once
ParsedLines == [l \in AllLines |-> ParseLine(Strip(l))]

\* one pass of the for loop that read a line
ParseStripped(data, found) ==
  IF found.blank THEN data ELSE Assign(data, found.key, found.value)

\* the body of the for loop over the lines one call reads
RECURSIVE ParseLines(_, _)
ParseLines(data, lines) ==
  IF lines = <<>> THEN data
  ELSE ParseLines(ParseStripped(data, ParsedLines[Head(lines)]), Tail(lines))

\* any_line: some line read was not blank
AnyLine(lines) == \E i \in 1..Len(lines) : ~ParsedLines[lines[i]].blank

Min(a, b) == IF a < b THEN a ELSE b

\* the record of one read_data call: whether the reader was connected, the
\* lines it read, what it returned, whether a serial call failed in it,
\* whether an exception left it, whether it followed another call with no
\* bytes arriving in between, and self.buffer when it began
NoCall ==
  [made |-> FALSE, connected |-> FALSE, consumed |-> <<>>, ret |-> None,
   failed |-> FALSE, raised |-> FALSE, quiet |-> FALSE, buf0 |-> <<>>]

Call(conn, lines, r, fail, exc) ==
  [made |-> TRUE, connected |-> conn, consumed |-> lines, ret |-> r,
   failed |-> fail, raised |-> exc, quiet |-> last.made /\ ~arrived,
   buf0 |-> buffer]

\* the record of a connect, disconnect or send_command call: its name, the
\* exception that left it ("none" when it returned), self.is_connected when
\* a disconnect or send_command began, what the serial port did in the call
\* ("none" when it was not used), whether an exception was caught and
\* dropped inside the call, the number of serial handles the reader had open
\* when the call was over, and the bytes the call wrote to the port
NoAct ==
  [name |-> "none", raised |-> "none", was |-> FALSE, io |-> "none",
   hid |-> FALSE, open |-> 0, wrote |-> None]

\* the open handles behind self.serial_conn / self.ser
Handles(conn) == IF conn = "open" THEN 1 ELSE 0

Act(name, exc, io, hid) ==
  [name |-> name, raised |-> exc,
   was |-> IF name = "connect" THEN FALSE ELSE is_connected, io |-> io,
   hid |-> hid, open |-> Handles(serial_conn), wrote |-> None]

\* a faulty variant: the input buffer is never cleared
AfterReset_kept(stale, fails) == stale

\* self.serial_conn.reset_input_buffer() on the input of the settle delay:
\* nothing is left of it, unless the call raises
AfterReset(stale, fails) == IF fails THEN stale ELSE <<>>

\* if any_line: data['timestamp'] = now
Stamp(data, any_line) ==
  IF any_line THEN [data EXCEPT !.timestamp = Some(clock)] ELSE data

\* a faulty variant: the timestamp is attached even when no line was read
ReadResult_stamped(lines) == Stamp(ParseLines(EmptyData, lines), TRUE)

\* what read_data returns after reading these lines
ReadResult(lines) == Stamp(ParseLines(EmptyData, lines), AnyLine(lines))

\* a faulty variant: the loop goes on until the input buffer is empty
ReadCount_all(n) == n

\* for _ in range(10): the lines a call reads of n buffered ones
ReadCount(n) == Min(ReadLimit, n)

\* the state after a call on an open connection that read the first taken
\* lines; failed: an in_waiting/readline raised, which the outer except
\* turns into None
ReadTaken(taken, failed) ==
  /\ pending' = SubSeq(pending, taken + 1, Len(pending))
  /\ last' = Call(TRUE, SubSeq(pending, 1, taken),
                  IF failed THEN None ELSE Some(ReadResult(SubSeq(pending, 1, taken))),
                  failed, FALSE)

\* SerialReader.read_data of serial_reader.py.  errAt = 0: the serial port
\* works; errAt = k: the k-th in_waiting/readline of the call raises.  A
\* closed handle raises at once.
read_data(errAt) ==
  /\ impl = "new"
  /\ IF ~is_connected \/ serial_conn = "none"
     THEN /\ errAt = 0
          /\ last' = Call(FALSE, <<>>, None, FALSE, FALSE)
          /\ UNCHANGED pending
     ELSE IF serial_conn = "closed"
     THEN /\ errAt = 1
          /\ last' = Call(TRUE, <<>>, None, TRUE, FALSE)
          /\ UNCHANGED pending
     ELSE IF errAt = 0
     THEN ReadTaken(ReadCount(Len(pending)), FALSE)
     ELSE /\ errAt <= Min(Len(pending) + 1, ReadLimit)
          /\ ReadTaken(errAt - 1, TRUE)
  /\ arrived' = FALSE
  /\ UNCHANGED <<impl, port, serial_conn, is_connected, buffer, sent, act,
                 clock>>

\* a faulty variant: every failure to open is reported alike
ConnectError_plain(outcome) == IF outcome = "ok" THEN "none" ELSE "failed"

\* the exception connect leaves with after serial.Serial() raised: the text
\* of the SerialException names a denied access ("busy") or it does not
ConnectError(outcome) ==
  CASE outcome = "ok" -> "none"
    [] outcome = "busy" -> "in use"
    [] OTHER -> "failed"

\* a faulty variant: the handle of the earlier connection is left open
Closing_none(conn) == 0

\* if self.serial_conn and self.serial_conn.is_open: self.serial_conn.close()
\* the handles connect closes before it opens the port
Closing(conn) == Handles(conn)

\* SerialReader.connect of serial_reader.py.  p: the port argument (None or
\* a name); outcome: what serial.Serial() does, "ok", "busy" (access denied)
\* or "error"; stale: the input of the settle delay; fails:
\* reset_input_buffer() raises, which "except Exception: pass" swallows.
connect(p, outcome, stale, fails) ==
  LET newport == IF p # None THEN p ELSE port
      closed  == IF serial_conn = "open" THEN "closed" ELSE serial_conn
  IN  /\ impl = "new"
      /\ port' = newport
      /\ act' = [Act("connect",
                     IF newport = None THEN "noport" ELSE ConnectError(outcome),
                     IF newport = None THEN "none" ELSE outcome,
                     fails)
                 EXCEPT !.open =
                   IF newport = None THEN Handles(serial_conn)
                   ELSE Handles(serial_conn) - Closing(serial_conn)
                        + (IF outcome = "ok" THEN 1 ELSE 0)]
      /\ IF newport = None
         THEN /\ outcome = "error" /\ stale = <<>> /\ ~fails
              /\ UNCHANGED <<serial_conn, is_connected, pending, sent>>
         ELSE IF outcome = "ok"
         THEN /\ serial_conn' = "open"
              /\ is_connected' = TRUE
              /\ pending' = AfterReset(stale, fails)
              /\ sent' = sent + Len(pending')
         ELSE /\ stale = <<>> /\ ~fails
              /\ serial_conn' = closed
              /\ is_connected' = FALSE
              /\ pending' = <<>>
              /\ UNCHANGED sent
      /\ last' = NoCall /\ prev' = NoCall /\ arrived' = FALSE
      /\ UNCHANGED <<impl, buffer, clock>>

\* a faulty variant: close() is called whatever the handle is
CloseError_unguarded(conn) == IF conn = "open" THEN "none" ELSE "no port"

\* the exception disconnect leaves with: close() is called on an open
\* handle only ("if self.serial_conn:" with the call in a try block, "if
\* self.ser and self.ser.is_open:"), and closing an open port works
CloseError(conn) == "none"

\* SerialReader.disconnect of serial_reader.py
disconnect ==
  /\ impl = "new"
  /\ serial_conn' = IF serial_conn = "open" THEN "closed" ELSE serial_conn
  /\ is_connected' = FALSE
  /\ pending' = <<>>
  /\ last' = NoCall /\ prev' = NoCall /\ arrived' = FALSE
  /\ act' = [Act("disconnect", CloseError(serial_conn),
                 IF serial_conn = "open" THEN "ok" ELSE "none", FALSE)
             EXCEPT !.open = 0]
  /\ UNCHANGED <<impl, port, buffer, sent, clock>>

\* a faulty variant: the command is written without its line terminator
CommandBytes_bare(command) == command

\* (command + '\n').encode(): the bytes of the command and one newline (the
\* commands are ASCII text, one byte for each character)
CommandBytes(command) == command \o <<"\n">>

\* what write() put on the wire
Wrote(command, fails) == IF fails THEN None ELSE Some(CommandBytes(command))

\* SerialReader.send_command of serial_reader.py.  fails: write() raises,
\* which "except Exception: pass" swallows.
send_command(command, fails) ==
  /\ impl = "new"
  /\ IF is_connected /\ serial_conn # "none"
     THEN act' = [Act("send_command", "none",
                      IF fails THEN "error" ELSE "ok", fails)
                  EXCEPT !.wrote = Wrote(command, fails)]
     ELSE /\ ~fails
          /\ act' = Act("send_command", "none", "none", FALSE)
  /\ UNCHANGED <<impl, port, serial_conn, is_connected, buffer, pending, sent,
                 arrived, last, prev, clock>>

(* ------------------------- serial_reader_OLD.py ------------------------ *)

\* a faulty variant: thrust and rpm are taken from each other's position
OLD_sample_swapped(f) ==
  IF \E i \in 1..8 : f[i] = None THEN None
  ELSE Some([time |-> f[1], thrust |-> f[3], rpm |-> f[2],
             temperature |-> f[4], voltage |-> f[5],
             current |-> f[6], power |-> f[7], throttle |-> f[8]])

\* the dict built from the eight float() results, None if one raised (a
\* value of a dict is written as in EmptyData: None or Some(number))
OLD_sample(f) ==
  IF \E i \in 1..8 : f[i] = None THEN None
  ELSE Some([time |-> f[1], thrust |-> f[2], rpm |-> f[3],
             temperature |-> f[4], voltage |-> f[5],
             current |-> f[6], power |-> f[7], throttle |-> f[8]])

\* a variant that also takes seven values and fills throttle with 0.0
OLD_fields_pad(parts) ==
  IF Len(parts) = 7
  THEN OLD_sample([i \in 1..8 |-> IF i = 8 THEN Some(0) ELSE ToFloat(parts[i])])
  ELSE IF Len(parts) # 8 THEN None
  ELSE OLD_sample([i \in 1..8 |-> ToFloat(parts[i])])

\* parts = line.split(","): only eight values are accepted
OLD_fields(parts) ==
  IF Len(parts) # 8 THEN None
  ELSE OLD_sample([i \in 1..8 |-> ToFloat(parts[i])])

\* the stripped line
OLD_line(line) == IF line = <<>> THEN None ELSE OLD_fields(Split(line, ","))

\* one line of the while loop: the sample it appends, None when it is skipped
OLD_parse(text) == OLD_line(Strip(text))

\* OLD_parse of every line the device sends here, worked out once
OLD_parsed == [l \in AllLines |-> OLD_parse(l)]

\* a faulty variant: a full buffer takes no further sample
BufferAppend_full(buf, x) ==
  IF Len(buf) >= BufferMaxLen THEN buf ELSE Append(buf, x)

\* deque.append with maxlen
BufferAppend(buf, x) ==
  IF Len(buf) >= BufferMaxLen THEN Append(Tail(buf), x) ELSE Append(buf, x)

\* self.buffer.append(data) unless the line was skipped
OLD_keep(buf, smp) == IF smp = None THEN buf ELSE BufferAppend(buf, smp[1])

\* a faulty variant: the loop stops at the first line it skips (break for
\* continue)
RECURSIVE OLD_drain_break(_, _)
OLD_drain_break(buf, lines) ==
  IF lines = <<>> THEN buf
  ELSE IF OLD_parsed[Head(lines)] = None THEN buf
  ELSE OLD_drain_break(OLD_keep(buf, OLD_parsed[Head(lines)]), Tail(lines))

\* the while loop over the lines one call reads
RECURSIVE OLD_drain(_, _)
OLD_drain(buf, lines) ==
  IF lines = <<>> THEN buf
  ELSE OLD_drain(OLD_keep(buf, OLD_parsed[Head(lines)]), Tail(lines))

\* return self.buffer[-1] if self.buffer else None
OLD_latest(buf) == IF buf = <<>> THEN None ELSE Some(buf[Len(buf)])

\* the state after a call on a connected reader that read the first taken
\* lines; failed: an in_waiting/readline raised and the exception left the call
OLD_taken(taken, failed) ==
  /\ pending' = SubSeq(pending, taken + 1, Len(pending))
  /\ buffer' = OLD_drain(buffer, SubSeq(pending, 1, taken))
  /\ last' = Call(TRUE, SubSeq(pending, 1, taken),
                  IF failed THEN None ELSE OLD_latest(buffer'),
                  failed, failed)

\* SerialReader.read_data of serial_reader_OLD.py, errAt as in read_data
OLD_read_data(errAt) ==
  /\ impl = "old"
  /\ IF ~is_connected
     THEN /\ errAt = 0
          /\ last' = Call(FALSE, <<>>, None, FALSE, FALSE)
          /\ UNCHANGED <<pending, buffer>>
     ELSE IF errAt = 0
     THEN OLD_taken(Len(pending), FALSE)
     ELSE /\ errAt <= Len(pending) + 1
          /\ OLD_taken(errAt - 1, TRUE)
  /\ arrived' = FALSE
  /\ UNCHANGED <<impl, port, serial_conn, is_connected, sent, act, clock>>

\* SerialReader.connect of serial_reader_OLD.py: nothing is caught, so a
\* failing serial.Serial() changes nothing and a failing
\* reset_input_buffer() leaves the reader connected with the stale input.
\* The handle of an earlier connection is not closed here; rebinding
\* self.ser drops the last reference to it, which closes it.
OLD_connect(outcome, stale, fails) ==
  /\ impl = "old"
  /\ IF outcome = "ok"
     THEN /\ serial_conn' = "open"
          /\ is_connected' = TRUE
          /\ pending' = AfterReset(stale, fails)
          /\ sent' = sent + Len(pending')
          /\ last' = NoCall /\ prev' = NoCall /\ arrived' = FALSE
     ELSE /\ stale = <<>> /\ ~fails
          /\ UNCHANGED <<serial_conn, is_connected, pending, sent, last, prev,
                         arrived>>
  /\ act' = [Act("connect",
                 IF outcome # "ok" THEN "serial"
                 ELSE IF fails THEN "reset" ELSE "none",
                 outcome, FALSE)
             EXCEPT !.open = IF outcome = "ok" THEN 1 ELSE Handles(serial_conn)]
  /\ UNCHANGED <<impl, port, buffer, clock>>

\* SerialReader.disconnect of serial_reader_OLD.py
OLD_disconnect ==
  /\ impl = "old"
  /\ serial_conn' = IF serial_conn = "open" THEN "closed" ELSE serial_conn
  /\ is_connected' = FALSE
  /\ pending' = <<>>
  /\ last' = NoCall /\ prev' = NoCall /\ arrived' = FALSE
  /\ act' = [Act("disconnect", CloseError(serial_conn),
                 IF serial_conn = "open" THEN "ok" ELSE "none", FALSE)
             EXCEPT !.open = 0]
  /\ UNCHANGED <<impl, port, buffer, sent, clock>>

\* SerialReader.send_command of serial_reader_OLD.py: a failing write()
\* leaves the call as an exception
OLD_send_command(cmd, fails) ==
  /\ impl = "old"
  /\ IF is_connected
     THEN act' = [Act("send_command", IF fails THEN "serial" ELSE "none",
                      IF fails THEN "error" ELSE "ok", FALSE)
                  EXCEPT !.wrote = Wrote(cmd, fails)]
     ELSE /\ ~fails
          /\ act' = Act("send_command", "none", "none", FALSE)
  /\ UNCHANGED <<impl, port, serial_conn, is_connected, buffer, pending, sent,
                 arrived, last, prev, clock>>

(* ------------------------------ the device ----------------------------- *)

\* the device writes one line (or the start of one) to the open port
DeviceSends(line) ==
  /\ serial_conn = "open"
  /\ sent < MaxLines
  /\ Len(pending) < MaxPending
  /\ pending' = Append(pending, line)
  /\ sent' = sent + 1
  /\ arrived' = TRUE
  /\ UNCHANGED <<impl, port, serial_conn, is_connected, buffer, last, prev,
                 act, clock>>

\* the input of connect's settle delay
Stale(S) ==
  {<<>>} \cup (IF sent < MaxLines THEN {<<l>> : l \in S} ELSE {})

\* what serial.Serial() does: it opens the port ("ok"); the port is held by
\* another program and the text of the SerialException names a denied access
\* ("busy") or does not ("held"); it fails otherwise ("error")
Outcomes == {"ok", "busy", "held", "error"}
Ports == {None, Some("COM3")}

\* the commands thrust_gui.py sends: send_command("s") in stop_motor,
\* send_command("procedure") in run_procedure
Commands ==
  {<<"s">>, <<"p", "r", "o", "c", "e", "d", "u", "r", "e">>}

\* the input of the settle delay while the acquisition session is modelled
GuiStale == Stale({LoadLine})

ErrChoices == 0..(MaxPending + 1)

(* ----------------------------- thrust_gui.py --------------------------- *)

\* the session data as one value
Cur ==
  [start_time |-> start_time, time_data |-> time_data,
   time_history |-> time_history, timestamp_history |-> timestamp_history,
   thrust_history |-> thrust_history, rpm_history |-> rpm_history,
   temperature_history |-> temperature_history,
   voltage_history |-> voltage_history, current_history |-> current_history,
   power_history |-> power_history, throttle_history |-> throttle_history]

\* a faulty variant: everything is cleared but the start of the session
Cleared_started ==
  [start_time |-> start_time, time_data |-> <<>>, time_history |-> <<>>,
   timestamp_history |-> <<>>, thrust_history |-> <<>>, rpm_history |-> <<>>,
   temperature_history |-> <<>>, voltage_history |-> <<>>,
   current_history |-> <<>>, power_history |-> <<>>, throttle_history |-> <<>>]

\* a faulty variant: the list of the wall-clock texts is not cleared
Cleared_stamps ==
  [start_time |-> 0, time_data |-> <<>>, time_history |-> <<>>,
   timestamp_history |-> timestamp_history, thrust_history |-> <<>>,
   rpm_history |-> <<>>, temperature_history |-> <<>>,
   voltage_history |-> <<>>, current_history |-> <<>>,
   power_history |-> <<>>, throttle_history |-> <<>>]

\* a faulty variant: the plot deques are cleared, the history lists are not
Cleared_kept == [Cur EXCEPT !.start_time = 0, !.time_data = <<>>]

\* the "Clear old data" block of start_test
Cleared ==
  [start_time |-> 0, time_data |-> <<>>, time_history |-> <<>>,
   timestamp_history |-> <<>>, thrust_history |-> <<>>, rpm_history |-> <<>>,
   temperature_history |-> <<>>, voltage_history |-> <<>>,
   current_history |-> <<>>, power_history |-> <<>>, throttle_history |-> <<>>]

SetData(g) ==
  /\ start_time' = g.start_time
  /\ time_data' = g.time_data
  /\ time_history' = g.time_history
  /\ timestamp_history' = g.timestamp_history
  /\ thrust_history' = g.thrust_history
  /\ rpm_history' = g.rpm_history
  /\ temperature_history' = g.temperature_history
  /\ voltage_history' = g.voltage_history
  /\ current_history' = g.current_history
  /\ power_history' = g.power_history
  /\ throttle_history' = g.throttle_history

\* data.get(key, 0) or dflt: the value when the key is there and truthy
GetOr(d, key, dflt) ==
  IF key \in DOMAIN d /\ d[key] # None /\ d[key] # Some(0) THEN d[key][1]
  ELSE dflt

\* product of two fixed-point numbers
FMul(a, b) == (a * b) \div 1000

\* elapsed = current_time - self.start_time
Elapsed(st) == clock - st

\* update_plots after "if data is None: return": data is appended to the
\* session data g.  Drawing the curves changes none of it (in the throttle
\* domain the drawing code fails on decimate_by_time, after the appends).
Entry(g, data) ==
    LET st      == IF g.start_time = 0 THEN clock ELSE g.start_time
        elapsed == Elapsed(st)
        voltage_val == GetOr(data, "voltage", 0)
        current_val == GetOr(data, "current", 0)
    IN  [start_time |-> st,
         time_data |-> Append(g.time_data, elapsed),
         time_history |-> Append(g.time_history, elapsed),
         timestamp_history |->
           Append(g.timestamp_history, GetOr(data, "timestamp", clock)),
         thrust_history |-> Append(g.thrust_history, GetOr(data, "thrust", 0)),
         rpm_history |-> Append(g.rpm_history, GetOr(data, "rpm", 0)),
         temperature_history |->
           Append(g.temperature_history, GetOr(data, "temperature", 0)),
         voltage_history |-> Append(g.voltage_history, voltage_val),
         current_history |-> Append(g.current_history, current_val),
         power_history |->
           Append(g.power_history,
                  GetOr(data, "power", FMul(voltage_val, current_val))),
         throttle_history |->
           Append(g.throttle_history, GetOr(data, "throttle", 0))]

\* a variant that skips a record without values (no sample yet)
Recorded_skipsEmpty(g, ret) ==
  IF ret = None \/ ret = Some(EmptyData) THEN g ELSE Entry(g, ret[1])

\* update_plots from "if data is None" on: the session data after the
\* value ret of read_data is recorded into g
Recorded(g, ret) == IF ret = None THEN g ELSE Entry(g, ret[1])

\* self.serial_reader is a SerialReader, of serial_reader.py or of
\* serial_reader_OLD.py: the calls the window makes on it
ReaderRead(errAt) == read_data(errAt) \/ OLD_read_data(errAt)

ReaderConnect(outcome, stale, fails) ==
  \/ connect(Some("COM3"), outcome, stale, fails)
  \/ OLD_connect(outcome, stale, fails)

ReaderDisconnect == disconnect \/ OLD_disconnect

\* connect() raised: serial.Serial() failed, or, in serial_reader_OLD.py,
\* reset_input_buffer() did
ConnectRaised(outcome, fails) ==
  outcome # "ok" \/ (impl = "old" /\ fails)

\* before the first start_test: no entry has been appended
NoSession == [added |-> 0]

\* a start_test call that leaves n entries in the history
Started(n) == [added |-> n]

\* a slot that appended n entries
Counted(n) == [session EXCEPT !.added = @ + n]

\* the slot that runs and len(self.time_history) as it begins
Slot(name) == op' = [name |-> name, len0 |-> Len(time_history)]

\* ThrustStandGUI.update_plots, run on the session data g
update_plots(g) ==
  \E errAt \in ErrChoices :
    /\ ReaderRead(errAt)
    /\ UNCHANGED prev
    /\ SetData(Recorded(g, last'.ret))

\* the QTimer fires
TimerTick ==
  /\ timer_active
  /\ Len(time_history) < MaxHistory
  /\ Slot("update_plots")
  /\ update_plots(Cur)
  /\ session' = Counted(Len(time_history') - Len(time_history))
  /\ UNCHANGED <<buttonVars, use_throttle_domain, fileVars>>

\* ThrustStandGUI.start_test, the slot of start_btn
start_test ==
  /\ start_btn
  /\ start_btn' = FALSE
  /\ stop_btn' = TRUE
  /\ export_btn' = FALSE
  /\ connect_btn' = FALSE
  /\ timer_active' = TRUE
  /\ Slot("start_test")
  /\ update_plots(Cleared)
  /\ session' = Started(Len(time_history'))
  /\ UNCHANGED <<use_throttle_domain, fileVars>>

\* a faulty variant: the timer is left running
StopEffect_running(start_enabled) ==
  /\ timer_active' = timer_active
  /\ start_btn' = start_enabled
  /\ stop_btn' = FALSE
  /\ connect_btn' = TRUE
  /\ export_btn' = IF Len(time_history) > 0 THEN TRUE ELSE export_btn

\* the button and timer changes of ThrustStandGUI.stop_test
StopEffect(start_enabled) ==
  /\ timer_active' = FALSE
  /\ start_btn' = start_enabled
  /\ stop_btn' = FALSE
  /\ connect_btn' = TRUE
  /\ export_btn' = IF Len(time_history) > 0 THEN TRUE ELSE export_btn

\* ThrustStandGUI.stop_test, the slot of stop_btn
stop_test ==
  /\ stop_btn
  /\ StopEffect(TRUE)
  /\ Slot("stop_test")
  /\ UNCHANGED <<readerVars, use_throttle_domain, session, dataVars,
                 fileVars>>

\* ThrustStandGUI.toggle_connection, the slot of connect_btn.  have_port:
\* the combo box names a port.
toggle_connection(have_port, outcome, stale, fails) ==
  /\ connect_btn
  /\ IF ~is_connected
     THEN IF ~have_port
          THEN /\ outcome = "error" /\ stale = <<>> /\ ~fails
               /\ UNCHANGED <<readerVars, buttonVars>>
          ELSE /\ ReaderConnect(outcome, stale, fails)
               /\ start_btn' = IF ConnectRaised(outcome, fails) THEN start_btn
                                ELSE TRUE
               /\ UNCHANGED <<timer_active, stop_btn, export_btn, connect_btn>>
     ELSE /\ have_port /\ outcome = "ok" /\ stale = <<>> /\ ~fails
          /\ StopEffect(FALSE)
          /\ ReaderDisconnect
  /\ Slot("toggle_connection")
  /\ UNCHANGED <<use_throttle_domain, session, dataVars, fileVars>>

\* ThrustStandGUI.toggle_domain, the slot of the domain check box
toggle_domain ==
  /\ use_throttle_domain' = ~use_throttle_domain
  /\ Slot("toggle_domain")
  /\ IF Len(time_data) > 0
     THEN /\ Len(time_history) < MaxHistory
          /\ update_plots(Cur)
     ELSE UNCHANGED <<readerVars, dataVars>>
  /\ session' = Counted(Len(time_history') - Len(time_history))
  /\ UNCHANGED <<buttonVars, fileVars>>

\* the wall clock advances
TimePasses ==
  /\ clock < MaxClock
  /\ clock' = clock + 1
  /\ UNCHANGED <<impl, port, serial_conn, is_connected, buffer, pending, sent,
                 arrived, last, prev, act, guiVars>>

(* ----------------- thrust_gui.py: the history files ------------------- *)

\* the last d decimal digits of a natural number
RECURSIVE Padded(_, _)
Padded(n, d) ==
  IF d = 0 THEN <<>>
  ELSE Append(Padded(n \div 10, d - 1), DigitChars[(n % 10) + 1])

Pow10(d) == CASE d = 0 -> 1 [] d = 1 -> 10 [] d = 2 -> 100 [] d = 3 -> 1000

Abs(v) == IF v < 0 THEN 0 - v ELSE v

\* the one more unit a magnitude with remainder r of q rounds to: a tie goes
\* the way the binary value of the float lies, up or down
RoundsUp(r, q, up) == 2 * r > q \/ (2 * r = q /\ up)

\* a faulty variant: the further decimals are cut off
Rounded_cut(mag, d, up) == mag \div Pow10(3 - d)

\* thousandths rounded to d decimals, counted in units of the last decimal
Rounded(mag, d, up) ==
  (mag \div Pow10(3 - d))
    + (IF RoundsUp(mag % Pow10(3 - d), Pow10(3 - d), up) THEN 1 ELSE 0)

\* the text of n units of the d-th decimal, with its sign
FixedText(neg, n, d) ==
  (IF neg THEN <<"-">> ELSE <<>>)
    \o Decimal(n \div Pow10(d)) \o <<".">> \o Padded(n % Pow10(d), d)

\* f"{v:.df}"
Format(v, d, up) == FixedText(v < 0, Rounded(Abs(v), d, up), d)

\* the wall-clock text of a clock reading, HH:MM:SS.sss
ClockText(t) ==
  <<"0", "0", ":", "0", "0", ":">> \o Padded(t, 2) \o <<".", "0", "0", "0">>

\* csv.writer: a field with a comma, a quote or a line break is quoted
NeedsQuotes(field) ==
  \E i \in 1..Len(field) : field[i] \in {",", "\"", "\r", "\n"}

\* every quote of the field written twice
RECURSIVE Doubled(_)
Doubled(field) ==
  IF field = <<>> THEN <<>>
  ELSE (IF Head(field) = "\"" THEN <<"\"", "\"">> ELSE <<Head(field)>>)
         \o Doubled(Tail(field))

Quoted(field) ==
  IF NeedsQuotes(field) THEN <<"\"">> \o Doubled(field) \o <<"\"">>
  ELSE field

\* writer.writerow(fields): the line written, without its terminator
RECURSIVE writerow(_)
writerow(fields) ==
  IF fields = <<>> THEN <<>>
  ELSE IF Len(fields) = 1 THEN Quoted(fields[1])
  ELSE Quoted(Head(fields)) \o <<",">> \o writerow(Tail(fields))

\* csv.reader: the number of quotes of the line before position i
QuotesBefore(line, i) == Cardinality({j \in 1..(i - 1) : line[j] = "\""})

\* the commas of the line that are outside quotes
Separators(line) ==
  {i \in 1..Len(line) : line[i] = "," /\ QuotesBefore(line, i) % 2 = 0}

\* the k-th smallest member of a set of numbers
Nth(S, k) == CHOOSE x \in S : Cardinality({y \in S : y < x}) = k - 1

CellFrom(seps, k) == IF k = 1 THEN 1 ELSE Nth(seps, k - 1) + 1

CellTo(line, seps, k) ==
  IF k > Cardinality(seps) THEN Len(line) ELSE Nth(seps, k) - 1

\* the positions of a quoted text that stay: of two quotes in a row the first
Kept(text) ==
  {i \in 1..Len(text) : text[i] # "\"" \/ QuotesBefore(text, i) % 2 = 0}

Undoubled(text, kept) == [k \in 1..Cardinality(kept) |-> text[Nth(kept, k)]]

Inner(cell) == SubSeq(cell, 2, Len(cell) - 1)

\* a cell as csv.reader hands it over
Unquoted(cell) ==
  IF cell # <<>> /\ cell[1] = "\"" THEN Undoubled(Inner(cell), Kept(Inner(cell)))
  ELSE cell

Cells(line, seps) ==
  [k \in 1..(Cardinality(seps) + 1) |->
     Unquoted(SubSeq(line, CellFrom(seps, k), CellTo(line, seps, k)))]

\* one row of csv.reader: an empty line gives an empty row
ReadRow(line) == IF line = <<>> THEN <<>> ELSE Cells(line, Separators(line))

UpperChars ==
  <<"A", "B", "C", "D", "E", "F", "G", "H", "I", "J", "K", "L", "M", "N",
    "O", "P", "Q", "R", "S", "T", "U", "V", "W", "X", "Y", "Z">>

LowerChars ==
  <<"a", "b", "c", "d", "e", "f", "g", "h", "i", "j", "k", "l", "m", "n",
    "o", "p", "q", "r", "s", "t", "u", "v", "w", "x", "y", "z">>

LowerChar(c) ==
  IF \E i \in 1..26 : UpperChars[i] = c
  THEN LowerChars[CHOOSE i \in 1..26 : UpperChars[i] = c]
  ELSE c

\* str.lower
Lower(text) == [i \in 1..Len(text) |-> LowerChar(text[i])]

\* str.startswith
StartsWith(text, pre) ==
  Len(text) >= Len(pre) /\ SubSeq(text, 1, Len(pre)) = pre

TimestampWord == <<"t", "i", "m", "e", "s", "t", "a", "m", "p">>
TimeWord == <<"t", "i", "m", "e">>
ThrottleWord == <<"t", "h", "r", "o", "t", "t", "l", "e">>

\* the header row export_to_csv writes (the degree sign of the temperature
\* column is left out of its title)
HeaderRow ==
  <<<<"T", "i", "m", "e", "s", "t", "a", "m", "p", " ", "(", "H", "H", ":", "M", "M", ":", "S", "S", ".", "s", "s", "s", ")">>,
    <<"E", "l", "a", "p", "s", "e", "d", " ", "(", "s", ")">>,
    <<"T", "h", "r", "u", "s", "t", " ", "(", "g", ")">>,
    <<"R", "P", "M">>,
    <<"T", "e", "m", "p", "e", "r", "a", "t", "u", "r", "e", " ", "(", "C", ")">>,
    <<"V", "o", "l", "t", "a", "g", "e", " ", "(", "V", ")">>,
    <<"C", "u", "r", "r", "e", "n", "t", " ", "(", "A", ")">>,
    <<"P", "o", "w", "e", "r", " ", "(", "W", ")">>,
    <<"T", "h", "r", "o", "t", "t", "l", "e", " ", "(", "%", ")">>>>

\* the i-th data row export_to_csv writes
DataRow(i, up) ==
  <<ClockText(timestamp_history[i]), Format(time_history[i], 3, up),
    Format(thrust_history[i], 3, up), Format(rpm_history[i], 1, up),
    Format(temperature_history[i], 2, up), Format(voltage_history[i], 3, up),
    Format(current_history[i], 3, up), Format(power_history[i], 3, up),
    Format(throttle_history[i], 1, up)>>

\* the rows export_to_csv writes: the metadata, an empty row, the header,
\* the data
ExportedRows(up) ==
  <<<<<<"M", "o", "t", "o", "r">>, motor_name>>,
    <<<<"P", "r", "o", "p", "e", "l", "l", "e", "r">>,
      prop_type>>,
    <<<<"E", "x", "p", "o", "r", "t", "e", "d">>,
      ClockText(clock)>>,
    <<>>,
    HeaderRow>>
    \o [i \in 1..Len(time_history) |-> DataRow(i, up)]

WrittenLines(rows) == [k \in 1..Len(rows) |-> writerow(rows[k])]

\* what is in the file after the with block: every line, the file as it was
\* when open() raised, the first n lines when a write raised after them
Written(lines, err, n) ==
  CASE err = "none" -> Some(lines)
    [] err = "open" -> file
    [] err = "write" -> Some(SubSeq(lines, 1, n))

\* a faulty variant: a failed export is reported like a successful one
ExportNotice_success(err) == "Export Successful"

\* the message box after the file dialog returned a name
ExportNotice(err) ==
  IF err = "none" THEN "Export Successful" ELSE "Export Error"

\* ThrustStandGUI.export_to_csv, the slot of export_btn.  chosen: the file
\* dialog returned a name; up: the way a tie of the rounding goes; err: what
\* raises in the try block, "none", "open" (open() does) or "write" (a
\* writerow does, after n lines).
export_to_csv(chosen, up, err, n) ==
  /\ IF Len(time_history) = 0
     THEN /\ err = "none" /\ n = 0
          /\ notice' = "No Data"
          /\ UNCHANGED file
     ELSE IF ~chosen
     THEN /\ err = "none" /\ n = 0
          /\ notice' = "none"
          /\ UNCHANGED file
     ELSE /\ IF err = "write" THEN n < Len(ExportedRows(up)) ELSE n = 0
          /\ file' = Written(WrittenLines(ExportedRows(up)), err, n)
          /\ notice' = ExportNotice(err)
  /\ Slot("export_to_csv")
  /\ UNCHANGED <<readerVars, buttonVars, use_throttle_domain, session,
                 dataVars, motor_name, prop_type, loaded>>

\* the result of one float(): whether it returned, and its value
Parsed(f) == [ok |-> f # None, v |-> f]

\* float(row[k]) if len(row) > k and row[k] != "" else dflt (k counted from 1)
NumberAt(row, k, dflt) ==
  IF Len(row) >= k /\ row[k] # <<>> THEN Parsed(ToFloat(row[k]))
  ELSE [ok |-> TRUE, v |-> dflt]

\* the throttle of a row: the column of the header that names it, else
\* column k
ThrottleAt(row, idx, k) ==
  IF idx # None /\ Len(row) >= idx[1] THEN NumberAt(row, idx[1], Some(0))
  ELSE NumberAt(row, k, Some(0))

\* the header is the one of the new format: its first cell starts with
\* "timestamp"
NewFormat(header) == StartsWith(Lower(Strip(header[1])), TimestampWord)

\* a row is taken for the header: its first cell starts with "timestamp" or
\* with "time"
IsHeader(row) == StartsWith(Lower(Strip(row[1])), TimeWord)

\* throttle_idx: the first header cell with "throttle" in it
ThrottleIdx(header) ==
  IF \E i \in 1..Len(header) : Contains(Lower(header[i]), ThrottleWord)
  THEN Some(SetMin({i \in 1..Len(header) :
                      Contains(Lower(header[i]), ThrottleWord)}))
  ELSE None

\* the eight float() conversions of a data row; o = 1 in the new format,
\* whose first column is the wall-clock text
RowFields(row, idx, o) ==
  [t   |-> IF o = 1 THEN NumberAt(row, 2, None) ELSE Parsed(ToFloat(row[1])),
   th  |-> NumberAt(row, 2 + o, Some(0)),
   r   |-> NumberAt(row, 3 + o, Some(0)),
   te  |-> NumberAt(row, 4 + o, Some(0)),
   v   |-> NumberAt(row, 5 + o, Some(0)),
   c   |-> NumberAt(row, 6 + o, Some(0)),
   p   |-> NumberAt(row, 7 + o, None),
   thr |-> ThrottleAt(row, idx, 8 + o)]

ParseRow(row, header, idx) ==
  RowFields(row, idx, IF NewFormat(header) THEN 1 ELSE 0)

\* no conversion of the row raised and it has a time
RowTaken(f) ==
  /\ \A k \in DOMAIN f : f[k].ok
  /\ f.t.v # None

\* the lists of load_history_file before the first row
NoRows ==
  [header |-> None, throttle_idx |-> None, times |-> <<>>, thrusts |-> <<>>,
   rpms |-> <<>>, temps |-> <<>>, volts |-> <<>>, currents |-> <<>>,
   powers |-> <<>>, throttles |-> <<>>]

\* the appends after a data row: a row in which a conversion raised is
\* skipped, a row without a power adds none
AddRow(acc, f) ==
  IF ~RowTaken(f) THEN acc
  ELSE [acc EXCEPT !.times = Append(@, f.t.v[1]),
                   !.thrusts = Append(@, f.th.v[1]),
                   !.rpms = Append(@, f.r.v[1]),
                   !.temps = Append(@, f.te.v[1]),
                   !.volts = Append(@, f.v.v[1]),
                   !.currents = Append(@, f.c.v[1]),
                   !.powers = IF f.p.v = None THEN @ ELSE Append(@, f.p.v[1]),
                   !.throttles = Append(@, f.thr.v[1])]

\* one pass of "for row in reader"
LoadRow(acc, row) ==
  IF row = <<>> THEN acc
  ELSE IF acc.header = None
  THEN IF IsHeader(row)
       THEN [acc EXCEPT !.header = Some(row),
                        !.throttle_idx = ThrottleIdx(row)]
       ELSE acc
  ELSE AddRow(acc, ParseRow(row, acc.header[1], acc.throttle_idx))

RECURSIVE LoadRows(_, _)
LoadRows(acc, lines) ==
  IF lines = <<>> THEN acc
  ELSE LoadRows(LoadRow(acc, ReadRow(Head(lines))), Tail(lines))

\* the lists that are plotted and tabulated: power is voltage times current
\* when some row had none
Shown(acc) ==
  [times |-> acc.times, thrusts |-> acc.thrusts, rpms |-> acc.rpms,
   temps |-> acc.temps, volts |-> acc.volts, currents |-> acc.currents,
   powers |-> IF Len(acc.powers) # Len(acc.times)
              THEN [i \in 1..Len(acc.volts) |->
                      FMul(acc.volts[i], acc.currents[i])]
              ELSE acc.powers,
   throttles |-> acc.throttles]

\* ThrustStandGUI.load_history_file on the exported file.  fails: open() or
\* the csv reader raises.
load_history_file(fails) ==
  /\ IF file = None
     THEN /\ ~fails
          /\ notice' = "none"
          /\ UNCHANGED loaded
     ELSE IF fails
     THEN /\ loaded' = loaded
          /\ notice' = "History Load Error"
     ELSE /\ loaded' = Some(Shown(LoadRows(NoRows, file[1])))
          /\ notice' = "none"
  /\ Slot("load_history_file")
  /\ UNCHANGED <<readerVars, buttonVars, use_throttle_domain, session,
                 dataVars, motor_name, prop_type, file>>

(* ---------------------------- AutomatedGui.py -------------------------- *)

\* The window of AutomatedGui.py keeps its session in nine deques
\* (time_data, timestamp_data, thrust_data, ...), which it plots and exports.
\* They are held here in the variables of the history lists of the same
\* measure; start_time and time_data of thrust_gui.py are not used.

\* data.get(key, 0): the value of the key, None included, 0 without the key
Auto_get(data, key) ==
  IF key \in DOMAIN data
  THEN IF data[key] = None THEN None ELSE data[key][1]
  ELSE 0

\* the nine appends of update_plots (setting the labels and the curves after
\* them changes none of the deques)
Auto_Entry(g, data) ==
  [g EXCEPT
     !.time_history = Append(@, Auto_get(data, "time")),
     !.timestamp_history = Append(@, clock),
     !.thrust_history = Append(@, Auto_get(data, "thrust")),
     !.rpm_history = Append(@, Auto_get(data, "rpm")),
     !.temperature_history = Append(@, Auto_get(data, "temperature")),
     !.voltage_history = Append(@, Auto_get(data, "voltage")),
     !.current_history = Append(@, Auto_get(data, "current")),
     !.power_history = Append(@, Auto_get(data, "power")),
     !.throttle_history = Append(@, Auto_get(data, "throttle"))]

\* update_plots from "if not data: return" on
Auto_Recorded(g, ret) == IF ret = None THEN g ELSE Auto_Entry(g, ret[1])

\* ThrustStandGUI.update_plots of AutomatedGui.py, the slot of the timer
Auto_update_plots ==
  /\ timer_active
  /\ Len(time_history) < MaxHistory
  /\ Slot("update_plots")
  /\ \E errAt \in ErrChoices :
       /\ ReaderRead(errAt)
       /\ UNCHANGED prev
       /\ SetData(Auto_Recorded(Cur, last'.ret))
  /\ UNCHANGED <<buttonVars, use_throttle_domain, session, fileVars>>

\* ThrustStandGUI.start_test of AutomatedGui.py: the deques are cleared and
\* the timer is started
Auto_start_test ==
  /\ start_btn
  /\ timer_active' = TRUE
  /\ Slot("start_test")
  /\ SetData(Cleared)
  /\ UNCHANGED <<readerVars, start_btn, stop_btn, export_btn, connect_btn,
                 use_throttle_domain, session, fileVars>>

\* ThrustStandGUI.stop_test of AutomatedGui.py
Auto_stop_test ==
  /\ stop_btn
  /\ timer_active' = FALSE
  /\ export_btn' = TRUE
  /\ Slot("stop_test")
  /\ UNCHANGED <<readerVars, start_btn, stop_btn, connect_btn,
                 use_throttle_domain, session, dataVars, fileVars>>

\* ThrustStandGUI.toggle_connection of AutomatedGui.py: connecting starts
\* the timer, disconnecting stops it
Auto_toggle_connection(have_port, outcome, stale, fails) ==
  /\ connect_btn
  /\ IF ~is_connected
     THEN IF ~have_port
          THEN /\ outcome = "error" /\ stale = <<>> /\ ~fails
               /\ UNCHANGED <<readerVars, buttonVars>>
          ELSE /\ ReaderConnect(outcome, stale, fails)
               /\ IF ConnectRaised(outcome, fails)
                  THEN UNCHANGED <<timer_active, start_btn, stop_btn>>
                  ELSE /\ timer_active' = TRUE
                       /\ start_btn' = TRUE
                       /\ stop_btn' = TRUE
               /\ UNCHANGED <<export_btn, connect_btn>>
     ELSE /\ have_port /\ outcome = "ok" /\ stale = <<>> /\ ~fails
          /\ ReaderDisconnect
          /\ timer_active' = FALSE
          /\ start_btn' = FALSE
          /\ stop_btn' = FALSE
          /\ UNCHANGED <<export_btn, connect_btn>>
  /\ Slot("toggle_connection")
  /\ UNCHANGED <<use_throttle_domain, session, dataVars, fileVars>>

\* the eight float() conversions of a row: row[1] .. row[8], counted from 0;
\* a missing cell raises IndexError, a cell that is no number ValueError
Auto_RowTaken(row) ==
  /\ Len(row) >= 9
  /\ \A k \in 2..9 : ToFloat(row[k]) # None

\* the appends after a row
Auto_AddRow(acc, row) ==
  [acc EXCEPT !.times = Append(@, ToFloat(row[2])[1]),
              !.thrusts = Append(@, ToFloat(row[3])[1]),
              !.rpms = Append(@, ToFloat(row[4])[1]),
              !.temps = Append(@, ToFloat(row[5])[1]),
              !.volts = Append(@, ToFloat(row[6])[1]),
              !.currents = Append(@, ToFloat(row[7])[1]),
              !.powers = Append(@, ToFloat(row[8])[1]),
              !.throttles = Append(@, ToFloat(row[9])[1])]

\* "for row in reader" on the rows after the first: the lists, None when a
\* conversion raised
RECURSIVE Auto_LoadRows(_, _)
Auto_LoadRows(acc, lines) ==
  IF lines = <<>> THEN Some(acc)
  ELSE IF ReadRow(Head(lines)) = <<>> THEN Auto_LoadRows(acc, Tail(lines))
  ELSE IF ~Auto_RowTaken(ReadRow(Head(lines))) THEN None
  ELSE Auto_LoadRows(Auto_AddRow(acc, ReadRow(Head(lines))), Tail(lines))

\* header = next(reader, None), then the loop
Auto_Loaded(lines) ==
  IF lines = <<>> THEN Some(NoRows) ELSE Auto_LoadRows(NoRows, Tail(lines))

\* ThrustStandGUI.load_history_file of AutomatedGui.py on the file
Auto_load_history_file ==
  /\ IF file = None
     THEN /\ notice' = "none"
          /\ UNCHANGED loaded
     ELSE IF Auto_Loaded(file[1]) = None
     THEN /\ notice' = "History Load Error"
          /\ UNCHANGED loaded
     ELSE /\ loaded' = Some(Shown(Auto_Loaded(file[1])[1]))
          /\ notice' = "none"
  /\ Slot("load_history_file")
  /\ UNCHANGED <<readerVars, buttonVars, use_throttle_domain, session,
                 dataVars, motor_name, prop_type, file>>

(* --------------------------- specifications ---------------------------- *)

InitReader ==
  /\ port = None
  /\ serial_conn = "none"
  /\ is_connected = FALSE
  /\ buffer = <<>>
  /\ pending = <<>>
  /\ sent = 0
  /\ arrived = FALSE
  /\ last = NoCall
  /\ prev = NoCall
  /\ act = NoAct
  /\ clock = 1

\* no session data
InitData ==
  /\ start_time = 0
  /\ time_data = <<>>
  /\ time_history = <<>>
  /\ timestamp_history = <<>>
  /\ thrust_history = <<>>
  /\ rpm_history = <<>>
  /\ temperature_history = <<>>
  /\ voltage_history = <<>>
  /\ current_history = <<>>
  /\ power_history = <<>>
  /\ throttle_history = <<>>

InitGui ==
  /\ timer_active = FALSE
  /\ start_btn = FALSE
  /\ stop_btn = FALSE
  /\ export_btn = FALSE
  /\ connect_btn = TRUE
  /\ use_throttle_domain = FALSE
  /\ op = [name |-> "__init__", len0 |-> 0]
  /\ session = NoSession
  /\ InitData

\* the name fields are empty, nothing is exported or loaded yet
InitFiles ==
  /\ motor_name = <<>>
  /\ prop_type = <<>>
  /\ file = None
  /\ loaded = None
  /\ notice = "none"

\* a reader of either class, driven through its methods
Init ==
  /\ impl \in {"new", "old"}
  /\ InitReader
  /\ InitGui
  /\ InitFiles

Next ==
  \/ \E p \in Ports, o \in {"ok", "error"}, l \in Stale(Lines), f \in BOOLEAN :
       connect(p, o, l, f) /\ UNCHANGED guiVars
  \/ disconnect /\ UNCHANGED guiVars
  \/ \E e \in ErrChoices : read_data(e) /\ prev' = last /\ UNCHANGED guiVars
  \/ \E o \in {"ok", "error"}, l \in Stale(Lines), f \in BOOLEAN :
       OLD_connect(o, l, f) /\ UNCHANGED guiVars
  \/ OLD_disconnect /\ UNCHANGED guiVars
  \/ \E e \in ErrChoices : OLD_read_data(e) /\ prev' = last /\ UNCHANGED guiVars
  \/ \E line \in Lines : DeviceSends(line) /\ UNCHANGED guiVars

Spec == Init /\ [][Next]_vars

\* the link of a reader of either class: every way serial.Serial() fails,
\* commands, and one kind of line from the device
LinkNext ==
  \/ \E p \in Ports, o \in Outcomes, l \in GuiStale, f \in BOOLEAN :
       connect(p, o, l, f) /\ UNCHANGED guiVars
  \/ disconnect /\ UNCHANGED guiVars
  \/ \E e \in ErrChoices : read_data(e) /\ prev' = last /\ UNCHANGED guiVars
  \/ \E c \in Commands, f \in BOOLEAN :
       send_command(c, f) /\ UNCHANGED guiVars
  \/ \E o \in Outcomes, l \in GuiStale, f \in BOOLEAN :
       OLD_connect(o, l, f) /\ UNCHANGED guiVars
  \/ OLD_disconnect /\ UNCHANGED guiVars
  \/ \E e \in ErrChoices : OLD_read_data(e) /\ prev' = last /\ UNCHANGED guiVars
  \/ \E c \in Commands, f \in BOOLEAN :
       OLD_send_command(c, f) /\ UNCHANGED guiVars
  \/ DeviceSends(LoadLine) /\ UNCHANGED guiVars

LinkSpec == Init /\ [][LinkNext]_vars

\* the acquisition session of thrust_gui.py on its SerialReader: the window
\* makes the same calls on either class of that name
GuiInit ==
  /\ impl \in {"new", "old"}
  /\ InitReader
  /\ InitGui
  /\ InitFiles

GuiNext ==
  \/ \E h \in BOOLEAN, o \in {"ok", "error"}, l \in GuiStale :
       toggle_connection(h, o, l, l # <<>>)
  \/ start_test
  \/ stop_test
  \/ TimerTick
  \/ toggle_domain
  \/ TimePasses
  \/ \E line \in GuiLines : DeviceSends(line) /\ UNCHANGED guiVars

GuiSpec == GuiInit /\ [][GuiNext]_vars

\* the file round trip of thrust_gui.py: a recorded session is exported and
\* the file is loaded in the history tab.  The entries of the session:
\* elapsed time, thrust, rpm, temperature, voltage, current, power, throttle
SampleRows ==
  {[t |-> 0, th |-> 123456, r |-> 5000000, te |-> 25675, v |-> 11100,
    c |-> 2500, p |-> 27750, thr |-> 50000],
   [t |-> 0, th |-> 0 - 2500, r |-> 1234250, te |-> 0 - 40, v |-> 0,
    c |-> 0, p |-> 0, thr |-> 45],
   [t |-> 1, th |-> 999, r |-> 9960, te |-> 9995, v |-> 3,
    c |-> 1000, p |-> 3, thr |-> 99960],
   [t |-> 1, th |-> 0, r |-> 0 - 50, te |-> 0 - 5, v |-> 12345,
    c |-> 0 - 1, p |-> 0 - 12, thr |-> 100000]}

\* the sessions: their elapsed times do not decrease
Sessions ==
  {h \in UNION {[1..n -> SampleRows] : n \in 0..MaxRows} :
     \A i \in 1..Len(h) : \A j \in i..Len(h) : h[i].t <= h[j].t}

\* what the user types into the motor and propeller fields
MotorNames ==
  {<<>>,
   <<"T", "-", "M", "o", "t", "o", "r">>,
   <<"t", "i", "m", "e", ",", "\"", "x", "\"">>}

PropTypes == {<<>>, <<"9", "x", "4", ".", "5">>}

\* the window after a session h was recorded from time 1 on and the reader
\* was disconnected
AfterSession(h) ==
  /\ impl = "new"
  /\ port = IF h = <<>> THEN None ELSE Some("COM3")
  /\ serial_conn = IF h = <<>> THEN "none" ELSE "closed"
  /\ is_connected = FALSE
  /\ buffer = <<>>
  /\ pending = <<>>
  /\ sent = 0
  /\ arrived = FALSE
  /\ last = NoCall
  /\ prev = NoCall
  /\ act = IF h = <<>> THEN NoAct
           ELSE [name |-> "disconnect", raised |-> "none", was |-> TRUE,
                 io |-> "ok", hid |-> FALSE, open |-> 0, wrote |-> None]
  /\ clock = MaxClock
  /\ timer_active = FALSE
  /\ start_btn = FALSE
  /\ stop_btn = FALSE
  /\ export_btn = (h # <<>>)
  /\ connect_btn = TRUE
  /\ use_throttle_domain = FALSE
  /\ op = [name |-> IF h = <<>> THEN "__init__" ELSE "toggle_connection",
           len0 |-> Len(h)]
  /\ session = [added |-> Len(h)]
  /\ start_time = IF h = <<>> THEN 0 ELSE 1
  /\ time_data = [i \in 1..Len(h) |-> h[i].t]
  /\ time_history = [i \in 1..Len(h) |-> h[i].t]
  /\ timestamp_history = [i \in 1..Len(h) |-> 1 + h[i].t]
  /\ thrust_history = [i \in 1..Len(h) |-> h[i].th]
  /\ rpm_history = [i \in 1..Len(h) |-> h[i].r]
  /\ temperature_history = [i \in 1..Len(h) |-> h[i].te]
  /\ voltage_history = [i \in 1..Len(h) |-> h[i].v]
  /\ current_history = [i \in 1..Len(h) |-> h[i].c]
  /\ power_history = [i \in 1..Len(h) |-> h[i].p]
  /\ throttle_history = [i \in 1..Len(h) |-> h[i].thr]

FileInit ==
  /\ \E h \in Sessions : AfterSession(h)
  /\ motor_name \in MotorNames
  /\ prop_type \in PropTypes
  /\ file = None
  /\ loaded = None
  /\ notice = "none"

FileNext ==
  \/ \E chosen \in BOOLEAN, up \in BOOLEAN :
       export_to_csv(chosen, up, "none", 0)
  \/ load_history_file(FALSE)

FileSpec == FileInit /\ [][FileNext]_vars

\* read_data called with a backlog: n buffered lines, all alike but for the
\* k-th
Backlog(n, k, a, b) == [i \in 1..n |-> IF i = k THEN b ELSE a]

DrainLines ==
  {LoadLine, PartialLoad, RpmLine, BlankLine, NumberedLine(1),
   NumberedLine(2)}

Backlogs ==
  {Backlog(n, k, a, b) :
     n \in 0..MaxBacklog, k \in 0..MaxBacklog, a \in DrainLines,
     b \in DrainLines}

\* a reader that connect() has just opened, with what the device has sent
\* since
Connected(lines) ==
  /\ impl \in {"new", "old"}
  /\ port = IF impl = "new" THEN Some("COM3") ELSE None
  /\ serial_conn = "open"
  /\ is_connected = TRUE
  /\ buffer = <<>>
  /\ pending = lines
  /\ sent = Len(lines)
  /\ arrived = (lines # <<>>)
  /\ last = NoCall
  /\ prev = NoCall
  /\ act = [name |-> "connect", raised |-> "none", was |-> FALSE,
            io |-> "ok", hid |-> FALSE, open |-> 1, wrote |-> None]
  /\ clock = 1

DrainInit ==
  /\ \E lines \in Backlogs : Connected(lines)
  /\ InitGui
  /\ InitFiles

DrainNext ==
  \/ \E e \in ErrChoices : read_data(e) /\ prev' = last /\ UNCHANGED guiVars
  \/ \E e \in ErrChoices : OLD_read_data(e) /\ prev' = last /\ UNCHANGED guiVars

DrainSpec == DrainInit /\ [][DrainNext]_vars

\* a long run of serial_reader_OLD.py: the device numbers its lines, every
\* fifth one lacks its eighth value
DeviceLine(k) == IF k % 5 = 0 THEN Csv7Line ELSE NumberedLine(k)

DeviceRuns ==
  /\ serial_conn = "open"
  /\ sent < MaxSamples
  /\ Len(pending) < MaxBurst
  /\ pending' = Append(pending, DeviceLine(sent + 1))
  /\ sent' = sent + 1
  /\ arrived' = TRUE
  /\ UNCHANGED <<impl, port, serial_conn, is_connected, buffer, last, prev,
                 act, clock>>

BufferInit ==
  /\ impl = "old"
  /\ Connected(<<>>)
  /\ InitGui
  /\ InitFiles

BufferNext ==
  \/ DeviceRuns /\ UNCHANGED guiVars
  \/ \E e \in ErrChoices : OLD_read_data(e) /\ prev' = last /\ UNCHANGED guiVars

BufferSpec == BufferInit /\ [][BufferNext]_vars

\* the entries of the history: the window is connected with some lines
\* waiting, a test is started and the timer ticks
EntryBacklogs ==
  UNION {[1..n -> EntryLines] : n \in 0..MaxLines}

EntryInit ==
  /\ \E lines \in EntryBacklogs : Connected(lines)
  /\ timer_active = FALSE
  /\ start_btn = TRUE
  /\ stop_btn = FALSE
  /\ export_btn = FALSE
  /\ connect_btn = TRUE
  /\ use_throttle_domain = FALSE
  /\ op = [name |-> "toggle_connection", len0 |-> 0]
  /\ session = NoSession
  /\ InitData
  /\ InitFiles

EntryNext ==
  \/ start_test
  \/ TimerTick
  \/ stop_test
  \/ TimePasses
  \/ \E line \in EntryLines : DeviceSends(line) /\ UNCHANGED guiVars

EntrySpec == EntryInit /\ [][EntryNext]_vars

\* the acquisition session of AutomatedGui.py on a SerialReader of either
\* class.  The device numbers its lines by its own clock, which never runs
\* backwards, or sends a labelled line.
DeviceCounts ==
  \E line \in {NumberedLine(sent + 1), LoadLine} : DeviceSends(line)

AutoInit ==
  /\ impl \in {"new", "old"}
  /\ InitReader
  /\ InitGui
  /\ InitFiles

AutoNext ==
  \/ \E h \in BOOLEAN, o \in {"ok", "error"}, l \in GuiStale :
       Auto_toggle_connection(h, o, l, l # <<>>)
  \/ Auto_start_test
  \/ Auto_stop_test
  \/ Auto_update_plots
  \/ TimePasses
  \/ DeviceCounts /\ UNCHANGED guiVars

AutoSpec == AutoInit /\ [][AutoNext]_vars

\* files that cannot be written or read: the window is connected to a
\* reader of serial_reader.py, tests are run and stopped, the history is
\* exported and files are loaded.  The device is silent, so every entry of
\* the history is one without values; a write fails at the first line or at
\* the last one.
AbortInit ==
  /\ impl = "new"
  /\ Connected(<<>>)
  /\ timer_active = FALSE
  /\ start_btn = TRUE
  /\ stop_btn = FALSE
  /\ export_btn = FALSE
  /\ connect_btn = TRUE
  /\ use_throttle_domain = FALSE
  /\ op = [name |-> "toggle_connection", len0 |-> 0]
  /\ session = NoSession
  /\ InitData
  /\ InitFiles

AbortNext ==
  \/ start_test
  \/ TimerTick
  \/ stop_test
  \/ toggle_connection(TRUE, "ok", <<>>, FALSE)
  \/ \E chosen \in BOOLEAN, err \in {"none", "open", "write"},
        n \in {0, Len(ExportedRows(TRUE)) - 1} :
       export_btn /\ export_to_csv(chosen, TRUE, err, n)
  \/ \E fails \in BOOLEAN : load_history_file(fails)

AbortSpec == AbortInit /\ [][AbortNext]_vars

\* the history files of the working directory, written by this or by an
\* earlier version of the program: with the wall-clock column first (fresh)
\* or the elapsed time first, with or without the power and throttle
\* columns, with or without the metadata rows before the header.  The
\* session the file was written from is kept in the history lists.
TimeTitle == <<"T", "i", "m", "e", " ", "(", "s", ")">>

Titles(fresh) == IF fresh THEN HeaderRow ELSE [HeaderRow EXCEPT ![2] = TimeTitle]

\* the columns of a layout, as positions of the nine exported ones
Columns(fresh, power, throttle) ==
  (IF fresh THEN <<1>> ELSE <<>>) \o <<2, 3, 4, 5, 6, 7>>
    \o (IF power THEN <<8>> ELSE <<>>) \o (IF throttle THEN <<9>> ELSE <<>>)

LayoutRow(cells, cols) == [k \in 1..Len(cols) |-> cells[cols[k]]]

LayoutRows(cols, fresh, meta) ==
  (IF meta THEN SubSeq(ExportedRows(TRUE), 1, 4) ELSE <<>>)
    \o <<LayoutRow(Titles(fresh), cols)>>
    \o [i \in 1..Len(time_history) |-> LayoutRow(DataRow(i, TRUE), cols)]

LayoutFile(fresh, power, throttle, meta) ==
  WrittenLines(LayoutRows(Columns(fresh, power, throttle), fresh, meta))

LayoutInit ==
  /\ \E h \in Sessions : AfterSession(h)
  /\ motor_name \in MotorNames
  /\ prop_type = <<>>
  /\ \E fresh \in BOOLEAN, power \in BOOLEAN, throttle \in BOOLEAN,
        meta \in BOOLEAN :
       file = Some(LayoutFile(fresh, power, throttle, meta))
  /\ loaded = None
  /\ notice = "none"

\* thrust_gui.py loads the file
LayoutNext == load_history_file(FALSE)

LayoutSpec == LayoutInit /\ [][LayoutNext]_vars

\* AutomatedGui.py loads the file
AutoLayoutNext == Auto_load_history_file

AutoLayoutSpec == LayoutInit /\ [][AutoLayoutNext]_vars

\* read_data of serial_reader.py on labelled lines: one waits in the input
\* buffer, alone or behind a line that sets a value
LabelFronts == {<<>>, <<LoadLine>>, <<RpmLine>>, <<VoltageLine>>}

LabelBacklogs == {front \o <<l>> : front \in LabelFronts, l \in LabelLines}

LabelInit ==
  /\ impl = "new"
  /\ \E lines \in LabelBacklogs : Connected(lines)
  /\ InitGui
  /\ InitFiles

LabelNext ==
  \E e \in ErrChoices : read_data(e) /\ prev' = last /\ UNCHANGED guiVars

LabelSpec == LabelInit /\ [][LabelNext]_vars

(* ------------------------------ properties ----------------------------- *)

\* the value keys of the dict serial_reader.py returns
MeasurementKeys == {"thrust", "rpm", "temperature", "voltage", "current"}

\* ret is a dict in which no value key is set
NoMeasurement(ret) ==
  ret # None /\ \A k \in MeasurementKeys : ret[1][k] = None

\* the value of key k in a returned dict, None when there is none
Field(ret, k) ==
  IF ret = None THEN None
  ELSE IF k \in DOMAIN ret[1] THEN ret[1][k] ELSE None

\* ret is a dict that holds every value of smp
HasFields(ret, smp) ==
  ret # None /\ \A k \in DOMAIN smp : Field(ret, k) = smp[k]

\* the nine history lists of the window
Histories ==
  <<time_history, timestamp_history, thrust_history, rpm_history,
    temperature_history, voltage_history, current_history, power_history,
    throttle_history>>

\* every history list has n entries
AllLen(n) == \A i \in 1..9 : Len(Histories[i]) = n

\* the last read_data call ran on a connected reader, no serial call failed
\* in it, and it read some lines, all of them in S
OnlyRead(S) ==
  /\ last.connected /\ ~last.failed
  /\ last.consumed # <<>>
  /\ \A i \in 1..Len(last.consumed) : last.consumed[i] \in S

\* the last read_data call ran on a connected reader, no serial call failed
\* in it, and it read exactly these lines
ReadExactly(lines) ==
  last.connected /\ ~last.failed /\ last.consumed = lines

\* what "1,-2.5,3,4,5,6,7,8" and "1,2,3,4,5,6,7" stand for
Csv8Sample ==
  [time |-> Some(1000), thrust |-> Some(-2500), rpm |-> Some(3000),
   temperature |-> Some(4000), voltage |-> Some(5000),
   current |-> Some(6000), power |-> Some(7000), throttle |-> Some(8000)]

Csv7Sample ==
  [time |-> Some(1000), thrust |-> Some(2000), rpm |-> Some(3000),
   temperature |-> Some(4000), voltage |-> Some(5000),
   current |-> Some(6000), power |-> Some(7000), throttle |-> Some(0)]

\* serial_reader_OLD.py after lines that add no sample: the buffer is as it
\* was and the call returns what it held before
OldUntouched == buffer = last.buf0 /\ last.ret = OLD_latest(last.buf0)

(* C1 *)

\* C1, as stated: a read_data call on a connected reader that follows
\* another call with no bytes arriving in between returns None.
C1_SecondReadIsNone == (last.connected /\ last.quiet) => last.ret = None

C1_New ==
  /\ last.ret = None <=> last.failed
  /\ (~last.failed /\ last.consumed = <<>>) => last.ret = Some(EmptyData)

C1_Old ==
  (~prev.failed /\ ~last.failed) =>
     /\ last.ret = prev.ret
     /\ buffer = last.buf0

\* C1, amended: such a second call does not return None because nothing
\* arrived.  serial_reader.py returns None exactly when a serial call fails
\* and otherwise a dict, whose values, timestamp included, are all None when
\* the call read no line; serial_reader_OLD.py returns what the first call
\* returned (the latest buffered sample again, None only if the buffer is
\* empty) and leaves its buffer alone.
C1_SecondReadRepeats ==
  (last.connected /\ last.quiet) => IF impl = "old" THEN C1_Old ELSE C1_New

\* a second call of serial_reader_OLD.py, nothing new, returns a sample
C1_Witness ==
  /\ impl = "old" /\ last.connected /\ last.quiet
  /\ ~prev.failed /\ ~last.failed
  /\ last.consumed = <<>> /\ last.ret # None

(* C2 *)

\* C2, as stated: when start_test has returned every history list is empty.
C2_EmptyAfterStart == op.name = "start_test" => AllLen(0)

\* C2, amended: when start_test has returned the history holds nothing of an
\* earlier run: it holds the one data point start_test records itself
\* through update_plots(), at elapsed time 0 with the values read_data
\* returned, or nothing when read_data returned None or raised.
C2_InitialPointOnly ==
  op.name = "start_test" =>
     /\ AllLen(IF last.ret = None THEN 0 ELSE 1)
     /\ last.ret # None =>
          /\ time_history = <<0>>
          /\ thrust_history = <<GetOr(last.ret[1], "thrust", 0)>>
          /\ rpm_history = <<GetOr(last.ret[1], "rpm", 0)>>

\* a test restarted over a history that had entries
C2_Witness ==
  op.name = "start_test" /\ op.len0 > 0 /\ Len(time_history) = 1

(* C3 *)

\* C3, as stated: while no test runs, a step that does not start one leaves
\* every history list as it is.
C3_FrozenWhenStopped ==
  [][(~timer_active /\ ~timer_active') => UNCHANGED Histories]_vars

(* C4 *)

\* a sample was completed by the lines the last call read
NewSample ==
  IF impl = "old" THEN buffer # last.buf0
  ELSE last.ret # None /\ ~NoMeasurement(last.ret)

\* C4, as stated: a poll tick appends one entry when a new sample was
\* completed since the tick before and leaves the history alone otherwise.
C4_OnlyOnNewSample ==
  op.name = "update_plots" =>
     AllLen(op.len0 + (IF NewSample THEN 1 ELSE 0))

\* C4, amended: a poll tick leaves the history alone when read_data returns
\* None or raises, and otherwise appends exactly one entry to every history
\* list, also when no sample was completed since the tick before: the entry
\* carries the values of the returned dict, 0 for a value that is None.
C4_OnEveryRecord ==
  op.name = "update_plots" =>
     /\ AllLen(op.len0 + (IF last.ret = None THEN 0 ELSE 1))
     /\ last.ret # None =>
          /\ thrust_history[Len(thrust_history)]
               = GetOr(last.ret[1], "thrust", 0)
          /\ rpm_history[Len(rpm_history)] = GetOr(last.ret[1], "rpm", 0)

\* a tick that read no line and appended an entry
C4_Witness ==
  /\ op.name = "update_plots" /\ last.connected /\ ~last.failed
  /\ last.consumed = <<>> /\ ~NewSample
  /\ Len(time_history) = op.len0 + 1

(* C5 *)

\* lines that match no format: garbled, cut short, or with a bad field
Unrecognised == {GarbledLine, PartialLine, BadCsvLine, BadCsvTail}

\* C5, as stated: a read_data call that reads only such lines, or lines cut
\* short, returns None and does not raise.
C5_NoSampleNoError ==
  OnlyRead(Unrecognised \cup {PartialLoad}) =>
     (last.ret = None /\ ~last.raised)

\* C5, amended: a read_data call that reads only such lines does not raise
\* and takes no value from them, but it need not return None:
\* serial_reader_OLD.py adds nothing to its buffer and returns what it held
\* before (the latest buffered sample, None if there is none), and
\* serial_reader.py returns a dict whose value keys are all None and whose
\* timestamp is set.  A line cut short that still reads as a label and a
\* number is a line like any other to serial_reader.py: of "Load: 123.4g"
\* cut to "Load: 12" it returns thrust = 12.0.
C5_NoValuesNoError ==
  /\ OnlyRead(Unrecognised) =>
       /\ ~last.raised
       /\ IF impl = "old" THEN OldUntouched
          ELSE NoMeasurement(last.ret) /\ last.ret[1].timestamp # None
  /\ OnlyRead({PartialLoad}) =>
       /\ ~last.raised
       /\ IF impl = "old" THEN OldUntouched
          ELSE Field(last.ret, "thrust") = Some(12000)

\* serial_reader_OLD.py read only such lines while it held a sample
C5_Witness ==
  OnlyRead(Unrecognised) /\ impl = "old" /\ last.buf0 # <<>>

(* C6 *)

\* C6, as stated: a call that reads the line "1,-2.5,3,4,5,6,7,8" returns a
\* sample with these eight values under time .. throttle.
C6_EightFields ==
  ReadExactly(<<Csv8Line>>) => HasFields(last.ret, Csv8Sample)

\* C6, amended: serial_reader_OLD.py appends and returns the sample whose
\* keys time .. throttle hold the eight numbers in positional order;
\* serial_reader.py does not read comma-separated lines and returns a dict
\* whose value keys are all None.
C6_EightFieldsOldOnly ==
  ReadExactly(<<Csv8Line>>) =>
     IF impl = "old"
     THEN /\ last.ret = Some(Csv8Sample)
          /\ buffer = Append(last.buf0, Csv8Sample)
     ELSE NoMeasurement(last.ret)

\* serial_reader_OLD.py read the eight-field line
C6_Witness ==
  ReadExactly(<<Csv8Line>>) /\ impl = "old" /\ last.ret = Some(Csv8Sample)

(* C7 *)

\* C7, as stated: a call that reads the line "1,2,3,4,5,6,7" returns a
\* sample with these seven values and throttle 0.0.
C7_SevenFields ==
  ReadExactly(<<Csv7Line>>) => HasFields(last.ret, Csv7Sample)

\* C7, amended: neither reader takes a seven-field line.
\* serial_reader_OLD.py accepts eight values only: it adds nothing to its
\* buffer and returns what it held before; serial_reader.py returns a dict
\* whose value keys are all None.  No sample with throttle 0.0 is made.
C7_SevenFieldsSkipped ==
  ReadExactly(<<Csv7Line>>) =>
     IF impl = "old" THEN OldUntouched ELSE NoMeasurement(last.ret)

\* serial_reader_OLD.py read the seven-field line
C7_Witness == ReadExactly(<<Csv7Line>>) /\ impl = "old"

(* C8 *)

\* eight comma-separated fields of which one is no number
BadCsv == {BadCsvLine, BadCsvTail}

\* C8: in serial_reader_OLD.py a comma-separated line with a field that is
\* no number adds no sample and leaves the buffer as it was, and the lines
\* after it are still read: a well-formed line that follows is appended
\* and returned.
C8_BadFieldSkipped ==
  (impl = "old" /\ last.connected /\ ~last.failed) =>
     \A b \in BadCsv :
        /\ last.consumed = <<b>> => OldUntouched
        /\ last.consumed = <<b, Csv8Line>> =>
             /\ buffer = Append(last.buf0, Csv8Sample)
             /\ last.ret = Some(Csv8Sample)

\* a bad line and then a good one were read in one call
C8_Witness ==
  /\ impl = "old" /\ ReadExactly(<<BadCsvLine, Csv8Line>>)
  /\ buffer # <<>>

(* C9 *)

Headers == {HeaderLine, TimestampHeader}

\* C9, as stated: a poll tick that reads only header lines gets None from
\* the reader and appends nothing to the history.
C9_HeaderIgnored ==
  (op.name = "update_plots" /\ OnlyRead(Headers)) =>
     (last.ret = None /\ AllLen(op.len0))

\* the values of the newest history entry are all 0
ZeroEntry ==
  /\ thrust_history[Len(thrust_history)] = 0
  /\ rpm_history[Len(rpm_history)] = 0
  /\ temperature_history[Len(temperature_history)] = 0
  /\ voltage_history[Len(voltage_history)] = 0
  /\ current_history[Len(current_history)] = 0
  /\ power_history[Len(power_history)] = 0

\* C9, amended: a header line gives no value.  serial_reader_OLD.py adds no
\* sample and returns what it held before; serial_reader.py returns a dict
\* whose value keys are all None.  The poll tick still appends its entry
\* whenever read_data returns a dict: with serial_reader.py an entry whose
\* values are all 0.
C9_HeaderNoValues ==
  (op.name = "update_plots" /\ OnlyRead(Headers)) =>
     /\ IF impl = "old" THEN OldUntouched
        ELSE NoMeasurement(last.ret) /\ ZeroEntry
     /\ AllLen(op.len0 + (IF last.ret = None THEN 0 ELSE 1))

\* a tick on serial_reader.py read a header line and appended an entry
C9_Witness ==
  /\ op.name = "update_plots" /\ OnlyRead(Headers) /\ impl = "new"
  /\ Len(time_history) = op.len0 + 1

(* C10 *)

\* ret carries thrust = 123.4 and rpm = 5000.0
HasBoth(ret) ==
  Field(ret, "thrust") = Some(123400) /\ Field(ret, "rpm") = Some(5000000)

\* serial_reader.py read "Load: 123.4g" and "RPM: 5000" in one call
ReadTogether == impl = "new" /\ ReadExactly(<<LoadLine, RpmLine>>)

\* serial_reader.py read the two lines in two successive calls
ReadApart ==
  /\ impl = "new" /\ ReadExactly(<<RpmLine>>)
  /\ prev.connected /\ ~prev.failed /\ prev.consumed = <<LoadLine>>

\* C10, as stated: once the two lines have been read, in one call or in
\* two, a call has returned a sample with both values.
C10_BothValues ==
  (ReadTogether \/ ReadApart) => (HasBoth(last.ret) \/ HasBoth(prev.ret))

\* C10, amended: the returned sample carries both values only when one call
\* reads both lines.  When two successive calls read them, the first
\* returns thrust = 123.4 with rpm None and the second rpm = 5000.0 with
\* thrust None: nothing is kept from one call to the next.
C10_BothInOneCallOnly ==
  /\ ReadTogether => HasBoth(last.ret)
  /\ ReadApart =>
       /\ Field(prev.ret, "thrust") = Some(123400)
       /\ Field(prev.ret, "rpm") = None
       /\ Field(last.ret, "rpm") = Some(5000000)
       /\ Field(last.ret, "thrust") = None

\* the two lines were read by two successive calls
C10_Witness == ReadApart /\ ~HasBoth(last.ret) /\ last.ret # None

(* ------------------------------- C11 ----------------------------------- *)

\* two numbers differ by at most half a unit of the d-th decimal
Near(a, b, d) == 2 * Abs(a - b) <= Pow10(3 - d)

\* row i of the loaded lists is row i of the session, up to the rounding of
\* the written decimals
SameRow(l, i) ==
  /\ Near(l.times[i], time_history[i], 3)
  /\ Near(l.thrusts[i], thrust_history[i], 3)
  /\ Near(l.rpms[i], rpm_history[i], 1)
  /\ Near(l.temps[i], temperature_history[i], 2)
  /\ Near(l.volts[i], voltage_history[i], 3)
  /\ Near(l.currents[i], current_history[i], 3)
  /\ Near(l.powers[i], power_history[i], 3)
  /\ Near(l.throttles[i], throttle_history[i], 1)

SameLengths(l) ==
  \A k \in DOMAIN l : Len(l[k]) = Len(time_history)

\* C11: a file written by export_to_csv and read by load_history_file gives
\* as many rows as the session history has, each with the session's values up
\* to the rounding of the written decimals (3, 3, 1, 2, 3, 3, 3, 1), whatever
\* text the motor and propeller fields hold.
C11_RoundTrip ==
  loaded # None =>
    /\ SameLengths(loaded[1])
    /\ \A i \in 1..Len(time_history) : SameRow(loaded[1], i)

\* a session of two entries was exported under a motor name with a comma and
\* quotes that starts like a header, and loaded; a value was rounded
C11_Witness ==
  /\ loaded # None
  /\ Len(time_history) = 2
  /\ Len(loaded[1].times) = 2
  /\ \E i \in 1..Len(motor_name) : motor_name[i] = ","
  /\ loaded[1].rpms[1] # rpm_history[1]


(* ------------------------------- C12 ----------------------------------- *)

SetMax(S) == CHOOSE x \in S : \A y \in S : y <= x

\* the lines among these that give serial_reader.py a value for the key
ValuedFor(lines, key) ==
  {i \in 1..Len(lines) :
     ParsedLines[lines[i]].key = key /\ ParsedLines[lines[i]].value # None}

\* the value of the last line that has one for the key
LatestFor(lines, key) ==
  IF ValuedFor(lines, key) = {} THEN None
  ELSE ParsedLines[lines[SetMax(ValuedFor(lines, key))]].value

\* the dict of serial_reader.py holds, for every key, the value of the last
\* of these lines that carries one
ReflectsNew(ret, lines) ==
  ret # None /\ \A key \in MeasurementKeys : ret[1][key] = LatestFor(lines, key)

\* the lines among these that serial_reader_OLD.py takes for a sample
SamplesIn(lines) == {i \in 1..Len(lines) : OLD_parsed[lines[i]] # None}

\* the sample of serial_reader_OLD.py is the one of the last such line, and
\* the newest of the buffer as it was when there is none
ReflectsOld(ret, lines, buf0) ==
  IF SamplesIn(lines) = {} THEN ret = OLD_latest(buf0)
  ELSE ret = OLD_parsed[lines[SetMax(SamplesIn(lines))]]

\* the last read_data call ran on the open port without a failure, and no
\* byte has arrived since it began
Drained ==
  /\ last.made /\ last.connected /\ ~last.failed
  /\ serial_conn = "open"
  /\ ~arrived

\* C12 as stated: when read_data returns on a connected reader with no bytes
\* arriving meanwhile, every line buffered at its start has been consumed and
\* the sample reflects the last valid line that was buffered, for any number
\* of buffered lines.
C12_DrainsAll ==
  Drained =>
    /\ pending = <<>>
    /\ impl = "new" => ReflectsNew(last.ret, last.consumed \o pending)
    /\ impl = "old" => ReflectsOld(last.ret, last.consumed \o pending, last.buf0)

\* C12, amended: serial_reader_OLD.py consumes every buffered line and returns
\* the sample of the last valid one; serial_reader.py consumes the first ten
\* buffered lines at most, leaves the rest for the next call, and returns for
\* each value the one of the last consumed line that carries it.
C12_DrainsUpToLimit ==
  Drained =>
    /\ impl = "new" =>
         /\ Len(last.consumed) = Min(ReadLimit, Len(last.consumed \o pending))
         /\ ReflectsNew(last.ret, last.consumed)
    /\ impl = "old" =>
         /\ pending = <<>>
         /\ ReflectsOld(last.ret, last.consumed, last.buf0)

\* serial_reader.py was called with more than ten lines buffered, the last of
\* them with a value of its own, and left it in the input buffer
C12_Witness ==
  /\ Drained
  /\ impl = "new"
  /\ Len(last.consumed) = ReadLimit
  /\ pending = <<PartialLoad>>
  /\ last.ret[1].thrust # ParsedLines[PartialLoad].value

(* ------------------------------- C13 ----------------------------------- *)

\* C13: a call of read_data returns after a bounded number of line reads, at
\* most ten, however many lines the device has delivered (lines that arrive
\* while the call drains are read by it like lines buffered before).
C13_BoundedReads == last.made => Len(last.consumed) <= ReadLimit


(* ------------------------------- C14 ----------------------------------- *)

\* of the first m lines of the long run, the ones with eight values
ValidCount(m) == m - (m \div 5)

\* the number of the j-th line with eight values
ValidNo(j) == j + ((j - 1) \div 4)

\* the lines read so far
ReadSoFar == sent - Len(pending)

\* C14: the sample buffer of serial_reader_OLD.py is a bounded FIFO: after
\* any sequence of read_data calls it holds at most 100 samples, and they are
\* the most recently parsed ones in the order of their arrival, so that an
\* append to the full buffer has evicted exactly the oldest entry.
C14_BoundedFifo ==
  /\ Len(buffer) = Min(BufferMaxLen, ValidCount(ReadSoFar))
  /\ \A i \in 1..Len(buffer) :
       Some(buffer[i]) =
         OLD_parsed[NumberedLine(
           ValidNo(ValidCount(ReadSoFar) - Len(buffer) + i))]

\* more than 100 samples were parsed: the buffer is full and its oldest
\* entry is no longer the first sample
C14_Witness ==
  /\ Len(buffer) = BufferMaxLen
  /\ ValidCount(ReadSoFar) > BufferMaxLen
  /\ buffer[1].time # Some(1000)


(* ------------------------------- C15 ----------------------------------- *)

\* connect has returned, and nothing has arrived or been read since
JustConnected ==
  /\ act.name = "connect" /\ act.raised = "none"
  /\ ~arrived
  /\ ~last.made

ReaderState == <<port, serial_conn, is_connected, buffer, pending>>

ConnectFailed ==
  impl = "new" /\ act.name = "connect" /\ act.raised # "none"

\* a connect of serial_reader.py whose serial.Serial() opens the port
ConnectsAgain ==
  \E l \in GuiStale, f \in BOOLEAN : connect(Some("COM3"), "ok", l, f)

\* C17 as stated: when the port is held by another program, connect raises an
\* error that differs from the one of every other failure to open; after a
\* failed connect is_connected is False and connect can be called again.
C17_BusyDistinct ==
  [][/\ ConnectFailed' =>
          /\ ~is_connected'
          /\ act'.io \in {"busy", "held"} <=> act'.raised = "in use"
     /\ ConnectFailed /\ ConnectsAgain => is_connected']_vars

\* C17, amended: connect raises the "already in use" error exactly when the
\* text of the SerialException holds "Access is denied" or "PermissionError";
\* a port that is held by another program without such a text fails like any
\* other.  After a failed connect is_connected is False and connect can be
\* called again.
C17_DeniedDistinct ==
  [][/\ ConnectFailed' =>
          /\ ~is_connected'
          /\ act'.io = "busy" <=> act'.raised = "in use"
     /\ ConnectFailed /\ ConnectsAgain => is_connected']_vars

\* connect failed on a port in use whose error text names no denied access
C17_Witness ==
  /\ ConnectFailed
  /\ act.io = "held"
  /\ act.raised = "failed"
  /\ ~is_connected

(* ------------------------------- C18 ----------------------------------- *)

\* C18: a failure of the serial port during read_data or send_command does
\* not leave the call as an exception: read_data returns no sample,
\* send_command returns normally, and is_connected is as before the call.
C18_NotPropagated ==
  /\ last.made /\ last.failed =>
       /\ ~last.raised
       /\ last.ret = None
       /\ is_connected = last.connected
  /\ act.name = "send_command" /\ act.io = "error" =>
       /\ act.raised = "none"
       /\ is_connected = act.was


(* ------------------------------- C19 ----------------------------------- *)

\* start_test was the last slot, and it began with entries of an earlier run
\* in the history
Restarted == op.name = "start_test" /\ op.len0 > 0

\* C19: the history holds only the entries appended since the last
\* start_test(), also when that start_test() followed a stopped run, and
\* their elapsed times are measured from the start of the new session (the
\* first entry recorded after the start_test(), at elapsed time 0), not from
\* the previous one.
C19_RestartClears ==
  /\ AllLen(session.added)
  /\ \A i \in 1..Len(time_history) :
       time_history[i] = timestamp_history[i] - timestamp_history[1]
  /\ Restarted => Len(time_history) <= 1

\* a run with entries was restarted after the clock had advanced, and the
\* initial entry of the new run is recorded
C19_Witness ==
  /\ Restarted
  /\ Len(time_history) = 1
  /\ start_time > 1


(* ------------------------------- C20 ----------------------------------- *)

\* the number a sample carries for a key, 0 when it carries none
Carried(ret, key) == IF Field(ret, key) = None THEN 0 ELSE Field(ret, key)[1]

\* the slot that ran last was a tick (or the initial update of start_test)
\* and its read_data returned a sample, which it appended
Ticked ==
  /\ op.name \in {"start_test", "update_plots"}
  /\ last.made /\ last.ret # None
  /\ Len(time_history) > 0

\* C20: the entry a tick appends carries the values of the sample, 0.0 for
\* every absent one, and as power the transmitted power when the sample
\* carries one, voltage x current only when it carries none.
C20_EntryCarriesSample ==
  Ticked =>
    LET n == Len(time_history) IN
      /\ thrust_history[n] = Carried(last.ret, "thrust")
      /\ rpm_history[n] = Carried(last.ret, "rpm")
      /\ temperature_history[n] = Carried(last.ret, "temperature")
      /\ voltage_history[n] = Carried(last.ret, "voltage")
      /\ current_history[n] = Carried(last.ret, "current")
      /\ throttle_history[n] = Carried(last.ret, "throttle")
      /\ power_history[n] =
           IF Field(last.ret, "power") # None THEN Carried(last.ret, "power")
           ELSE FMul(voltage_history[n], current_history[n])


(* ------------------------------- C21 ----------------------------------- *)

\* the times of the history l do not decrease in the order of the appends
NonDecreasing(l) ==
  \A i \in 1..Len(l) : \A j \in i..Len(l) : l[i] <= l[j]

\* a step in which the first entry of a session that start_test() began is
\* appended: by start_test itself, or by the next slot when start_test left
\* the history empty
FirstOfSession ==
  /\ time_history' # <<>>
  /\ \/ op'.name = "start_test"
     \/ op.name = "start_test" /\ time_history = <<>>

\* C21: the times of the history do not decrease in the order the entries
\* were appended (the clock never runs backwards), and they start again with
\* every start_test(): the first entry of the session it begins is at the
\* start of that session, time 0.
C21_ElapsedMonotone ==
  [][/\ NonDecreasing(time_history')
     /\ FirstOfSession => time_history'[1] = 0]_vars

(* ------------------------------- C22 ----------------------------------- *)

\* export_to_csv runs with a history and a file name, and open() or a write
\* raises
ExportFails ==
  /\ time_history # <<>>
  /\ \E err \in {"open", "write"}, n \in {0, Len(ExportedRows(TRUE)) - 1} :
       export_to_csv(TRUE, TRUE, err, n)

\* load_history_file runs on a file, and open() or the reader raises
LoadFails == file # None /\ load_history_file(TRUE)

\* the session history, the state of the session and that of the connection
SessionState ==
  <<dataVars, timer_active, start_btn, stop_btn, export_btn, connect_btn,
    port, serial_conn, is_connected, buffer, pending>>

Reloaded == op.name = "load_history_file"

\* row i of the lists l holds the time and the five measurements before the
\* power of entry i of the session the file was written from
SameMeasurements(l, i) ==
  /\ Near(l.times[i], time_history[i], 3)
  /\ Near(l.thrusts[i], thrust_history[i], 3)
  /\ Near(l.rpms[i], rpm_history[i], 1)
  /\ Near(l.temps[i], temperature_history[i], 2)
  /\ Near(l.volts[i], voltage_history[i], 3)
  /\ Near(l.currents[i], current_history[i], 3)

\* C23: a reload takes the layout from the header row.  Under a header that
\* begins with 'timestamp' the elapsed time is read from column 2 and the
\* measurements from the columns after it, under one that begins with 'time'
\* the elapsed time is read from column 1; the rows before the header add no
\* data row.  So every file of either layout is shown with as many rows as
\* it has data rows, each with the time and the measurements written to it.
C23_LayoutFromHeader ==
  Reloaded =>
    /\ loaded # None
    /\ Len(loaded[1].times) = Len(time_history)
    /\ \A i \in 1..Len(time_history) : SameMeasurements(loaded[1], i)

(* ------------------------------- C24 ----------------------------------- *)

PowerWord == <<"p", "o", "w", "e", "r">>

\* no line of the file names a column: the file has no such column
Lacks(word) ==
  \A k \in 1..Len(file[1]) : ~Contains(Lower(file[1][k]), word)

\* C24: when a file without a power column is reloaded, in either layout and
\* with or without a throttle column, every row is shown and the power of
\* each is the product of its voltage and its current.
C24_PowerRecomputed ==
  (Reloaded /\ Lacks(PowerWord)) =>
    /\ loaded # None
    /\ Len(loaded[1].powers) = Len(time_history)
    /\ \A i \in 1..Len(loaded[1].powers) :
         loaded[1].powers[i] = FMul(loaded[1].volts[i], loaded[1].currents[i])

(* ------------------------------- C25 ----------------------------------- *)

\* the last read_data call read a labelled line, alone or behind another line
LabelRead ==
  /\ last.made /\ last.connected /\ ~last.failed
  /\ last.consumed \in LabelBacklogs

\* the label and the tail a labelled line is made of
PartsOf(line) ==
  CHOOSE pr \in LineLabels \X LineTails : LabelLine(pr[1], pr[2]) = line

\* the lines read before the last one, and the values they set
Front(lines) == SubSeq(lines, 1, Len(lines) - 1)

FrontValues(front) ==
  CASE front = <<>> -> EmptyData
    [] front = <<LoadLine>> -> [EmptyData EXCEPT !.thrust = Some(123400)]
    [] front = <<RpmLine>> -> [EmptyData EXCEPT !.rpm = Some(5000000)]
    [] front = <<VoltageLine>> -> [EmptyData EXCEPT !.voltage = Some(2000)]

\* the values after the lines: the labelled line sets the field of its label
\* to the first number after its last colon, if there is one (and, when
\* usual_only, if the label is spelt as usual); else it changes nothing
Expected(lines, usual_only) ==
  LET pr == PartsOf(Last(lines))
      before == FrontValues(Front(lines))
  IN  IF (usual_only => pr[1].usual) /\ pr[2].value # None
      THEN [before EXCEPT ![pr[1].field] = pr[2].value]
      ELSE before

SameValues(ret, d) ==
  ret # None /\ \A k \in MeasurementKeys : ret[1][k] = d[k]

\* C25 as stated: a line whose label holds load or thrust, temp, rpm,
\* voltage or current in any letter case sets thrust, temperature, rpm,
\* voltage or current to the first number after the line's last colon; a
\* line without a number there changes no field.
C25_AnyCase == LabelRead => SameValues(last.ret, Expected(last.consumed, FALSE))

\* C25, amended: the line sets the field only when it holds the word as
\* serial_reader.py spells it: 'Load' or 'load', 'Temp' or 'temp', 'RPM' or
\* 'rpm', 'Voltage' or 'voltage', 'Current' or 'current'.  A line with
\* 'thrust' or with a word in another letter case ('LOAD', 'Rpm') changes no
\* field, like a line without a number after its last colon.
C25_UsualSpelling ==
  LabelRead => SameValues(last.ret, Expected(last.consumed, TRUE))

\* "LOAD: 12.5" was read behind "Load: 123.4g" and the thrust is still 123.4
C25_Witness ==
  /\ LabelRead
  /\ Front(last.consumed) = <<LoadLine>>
  /\ ~PartsOf(Last(last.consumed))[1].usual
  /\ PartsOf(Last(last.consumed))[1].field = "thrust"
  /\ PartsOf(Last(last.consumed))[2].value = Some(12500)
  /\ last.ret[1].thrust = Some(123400)

(* ------------------------------- C26 ----------------------------------- *)

\* C26: in thrust_gui.py the nine history lists (time, timestamp, thrust,
\* rpm, temperature, voltage, current, power, throttle) have the same length
\* in every state, however start_test, the ticks, stop_test, the domain
\* toggles and the connects and disconnects follow one another.
C26_SameLengths == \A i \in 1..9 : Len(Histories[i]) = Len(time_history)

\* a test that began after the clock had advanced recorded two entries, the
\* domain was toggled and the reader disconnected
C26_Witness ==
  /\ ~is_connected /\ act.name = "disconnect"
  /\ use_throttle_domain
  /\ start_time > 1
  /\ Len(time_history) = 2
  /\ Len(throttle_history) = 2

(* ------------------------------- C27 ----------------------------------- *)

\* the last read_data call was the first one since connect() of
\* serial_reader_OLD.py returned
FirstReadOld ==
  /\ impl = "old"
  /\ last.made /\ last.connected
  /\ ~prev.made

\* C27: every sample read_data of serial_reader_OLD.py returns was parsed
\* from a line received after the most recent connect(); a sample buffered
\* during an earlier connection is never returned after disconnect() and a
\* new connect().  So the first call after a connect() returns a sample of
\* a line it read itself, or None.
C27_FreshSamples ==
  (FirstReadOld /\ last.ret # None) =>
    \E i \in SamplesIn(last.consumed) : last.ret = OLD_parsed[last.consumed[i]]

(* ------------------------------- C28 ----------------------------------- *)

C29_ConnectedMeansOpen ==
  impl = "new" =>
    /\ is_connected => serial_conn = "open"
    /\ act.open <= 1
    /\ act.open = Handles(serial_conn)

\* connect opened the port on a reader whose earlier handle had received
\* lines from the device
C29_Witness ==
  /\ impl = "new"
  /\ act.name = "connect" /\ act.io = "ok"
  /\ is_connected /\ serial_conn = "open"
  /\ act.open = 1
  /\ sent > Len(pending)

(* ------------------------------- C30 ----------------------------------- *)

\* a read_data call of either class
Reads == \E e \in ErrChoices : read_data(e) \/ OLD_read_data(e)

\* a send_command call of either class with this command
Sends(c, fails) == send_command(c, fails) \/ OLD_send_command(c, fails)

\* C30: on a reader that is not connected, read_data returns None and reads
\* nothing from the port, send_command writes nothing, and neither call
\* changes the reader or its buffer.  On a connected reader whose port takes
\* the write, send_command(text) writes text followed by one newline and
\* nothing else, reads no reply and leaves the reader as it was.
C30_IdleCallsAndCommandLine ==
  [][/\ ~is_connected /\ Reads =>
          /\ last'.ret = None
          /\ last'.consumed = <<>>
          /\ ~last'.failed
          /\ ReaderState' = ReaderState
     /\ \A c \in Commands :
          /\ ~is_connected /\ (\E f \in BOOLEAN : Sends(c, f)) =>
               /\ act'.wrote = None
               /\ act'.io = "none"
               /\ act'.raised = "none"
               /\ ReaderState' = ReaderState
          /\ is_connected /\ Sends(c, FALSE) =>
               /\ act'.wrote = Some(c \o <<"\n">>)
               /\ act'.raised = "none"
               /\ last' = last
               /\ ReaderState' = ReaderState]_vars

\* send_command("procedure") has written its line to a connected reader's
\* port while a line of the device was waiting unread
C30_Witness ==
  /\ act.name = "send_command"
  /\ act.was /\ is_connected
  /\ act.wrote =
       Some(<<"p", "r", "o", "c", "e", "d", "u", "r", "e", "\n">>)
  /\ pending # <<>>

====
